---- MODULE Spec2Model ----
(***************************************************************************)
(* Volume and VM-directory lifecycle of the wb front end (volume.cpp,      *)
(* vm.cpp).  The state is the part of the host the commands read and write *)
(* below vm_root: the @-prefixed volume directories of the root            *)
(* filesystem, the mount table entries targeting them, the filesystems of  *)
(* the block devices, the VM entries and the .trash of vm_root, and the    *)
(* service manager's view of each VM.  Every command is one atomic action  *)
(* (the tool is a single-threaded CLI run once per command).               *)
(*                                                                         *)
(* A file name is a sequence of tokens ("@" is a token of its own, so that *)
(* name[0] == '@' and the stripping of the prefix are computed), a path is *)
(* a sequence of file names.                                               *)
(***************************************************************************)
EXTENDS Integers, Sequences, FiniteSets, TLC

\* ------------------------------------------------------------------ bounds
\* number of identifiers uuid_generate() hands out in one behaviour
MaxUuid == 2

\* ------------------------------------------------------------- vocabulary
\* std::optional: nullopt is the empty sequence, a value a sequence of one
nullopt == <<>>
make_optional(x) == <<x>>
has_value(o) == o # <<>>
value(o) == o[1]

\* an absent directory (of a volume), an absent entry (of a VM), an absent file
NoDir == [kind |-> "none"]
NoEnt == [kind |-> "none"]
NoFile == "nofile"
\* a .trash directory: absent, or present with its entries
NoTrash == [present |-> FALSE, entries |-> {}]

Default == <<"default">>
VolumeNames == {Default, <<"v">>, <<"w">>}
\* the names volume add and volume remove accept
NamedVolumes == VolumeNames \ {Default}
VmNames == {<<"a">>}
\* names a caller may pass to vm create: a valid one and an all-digits one
VmNameInputs == VmNames \cup {<<"7">>}
Digits == {"0", "1", "2", "3", "4", "5", "6", "7", "8", "9"}

VmRoot == << <<"var">>, <<"vm">> >>

\* p / name
Slash(p, name) == Append(p, name)
parent_path(p) == SubSeq(p, 1, Len(p) - 1)
filename(p) == p[Len(p)]
AtName(name) == <<"@">> \o name
\* name.replace(name.begin(), name.begin() + 1, "")
StripFirst(name) == Tail(name)

\* Block devices and other files a caller may name as <device>.
Devices == {"sda1", "sdb1", "sdc1", "file", "sdz1"}
DeviceInfo ==
    [d \in Devices |->
        CASE d = "sda1" -> [exists |-> TRUE, block |-> TRUE, uuid |-> "u1"]
          [] d = "sdb1" -> [exists |-> TRUE, block |-> TRUE, uuid |-> "u2"]
          [] d = "sdc1" -> [exists |-> TRUE, block |-> TRUE, uuid |-> ""]
          [] d = "file" -> [exists |-> TRUE, block |-> FALSE, uuid |-> ""]
          [] d = "sdz1" -> [exists |-> FALSE, block |-> FALSE, uuid |-> ""]]
Formatted == {d \in Devices : DeviceInfo[d].block /\ DeviceInfo[d].uuid # ""}
Fstype(d) == "btrfs"

\* A directory that can hold VM directories: a volume directory of the root
\* filesystem, or the root directory of a device's filesystem.
EmptyVms == [n \in VmNames |-> NoEnt]
EmptyDir == [kind |-> "dir", uuid |-> NoFile, subvolume |-> FALSE, vms |-> EmptyVms, trash |-> NoTrash]

\* The directory .snapshots of a btrfs filesystem: absent, or holding the
\* snapshots head and Sun .. Sat, each with its creation time (otime).
DOWSTR == <<"Sun", "Mon", "Tue", "Wed", "Thu", "Fri", "Sat">>
SnapshotNames == {"head"} \cup {DOWSTR[i] : i \in DOMAIN DOWSTR}
NoSubvol == [present |-> FALSE, otime |-> 0, read_only |-> FALSE]
NoSnapshots == [present |-> FALSE, entries |-> [n \in SnapshotNames |-> NoSubvol]]
\* the last day of the clock
MaxDay == 8

\* vm list: the VMs `vm show` may report, in the order of std::map
ListNames == {<<"a">>, <<"b">>}
NameOrder == << <<"a">>, <<"b">> >>
\* struct VM of vm::list, the columns cpu and memory left out
NoRow == [present |-> FALSE, running |-> FALSE, volume |-> <<>>, autostart |-> <<>>,
          ip_address |-> <<>>]
\* a guest-agent query: where it is, the way it ended, what it returned
NoThread == [state |-> "none", via |-> "", value |-> <<>>]
NoOutput == [printed |-> FALSE, rows |-> [n \in ListNames |-> NoRow]]
NoEntry == [present |-> FALSE, qga |-> FALSE]
NoListing ==
    [pc |-> "idle", json |-> [n \in ListNames |-> NoEntry],
     vms |-> [n \in ListNames |-> NoRow],
     threads |-> [n \in ListNames |-> NoThread],
     joined |-> {}, out |-> NoOutput, err |-> "ok"]

VARIABLES
    dirs,       \* dirs[n]: the directory vm_root/@n of the root filesystem, or NoDir
    mounts,     \* mounts[n]: devices mounted on vm_root/@n, oldest first
    devfs,      \* devfs[d]: root directory of the filesystem on device d
    root,       \* root[vm]: the entry vm_root/vm (NoEnt, a directory, a symlink)
    trash,      \* vm_root/.trash: NoTrash or its entries
    running,    \* VMs whose service is active
    enabled,    \* VMs whose service is enabled (autostart)
    uuid_gen,   \* identifiers uuid_generate() has handed out
    snapshots,  \* snapshots[d]: the directory .snapshots of the filesystem on device d
    now,        \* the clock, in days since the epoch
    listing,    \* the run of vm list in progress: its position, map vms, threads
    result      \* the last command, its arguments and its outcome

vars == <<dirs, mounts, devfs, root, trash, running, enabled, uuid_gen, snapshots, now, listing, result>>

\* the filesystem-and-mount-table part of the state, passed to the operators
FS == [dirs |-> dirs, mounts |-> mounts, devfs |-> devfs, root |-> root, trash |-> trash]

\* ------------------------------------------------------- filesystem access
MountTarget(n) == Slash(VmRoot, AtName(n))
IsMounted(F, n) == F.mounts[n] # <<>>
TopDevice(F, n) == F.mounts[n][Len(F.mounts[n])]
\* what a path below vm_root/@n reaches: the topmost mounted filesystem, or
\* the directory of the root filesystem
Visible(F, n) == IF IsMounted(F, n) THEN F.devfs[TopDevice(F, n)] ELSE F.dirs[n]
SetVisible(F, n, d) ==
    IF IsMounted(F, n)
    THEN [F EXCEPT !.devfs[TopDevice(F, n)] = d]
    ELSE [F EXCEPT !.dirs[n] = d]

\* directories outside vm_root an operator-made symlink may point at
ForeignDirs == { << <<"mnt">>, <<"a">> >>, << <<"mnt">>, <<"@", "v">>, <<"a">> >> }

\* lstat(): the kind of the entry at path, symlinks not followed
Lstat(F, path) ==
    LET n == Len(VmRoot) IN
    IF path = VmRoot THEN "dir"
    ELSE IF path \in ForeignDirs THEN "dir"
    ELSE IF Len(path) <= n \/ SubSeq(path, 1, n) # VmRoot THEN "none"
    ELSE IF Len(path) = n + 1 THEN
        LET name == path[n + 1] IN
        IF name \in VmNames THEN
            F.root[name].kind
        ELSE IF name = <<".trash">> THEN
            (IF F.trash.present THEN "dir" ELSE "none")
        ELSE IF name # <<>> /\ name[1] = "@" /\ StripFirst(name) \in VolumeNames THEN
            Visible(F, StripFirst(name)).kind
        ELSE "none"
    ELSE IF Len(path) = n + 2 THEN
        LET dname == path[n + 1]
            leaf == path[n + 2]
        IN  IF dname # <<>> /\ dname[1] = "@" /\ StripFirst(dname) \in VolumeNames
               /\ Visible(F, StripFirst(dname)).kind = "dir"
            THEN LET d == Visible(F, StripFirst(dname)) IN
                 IF leaf = <<".uuid">> THEN (IF d.uuid = NoFile THEN "none" ELSE "file")
                 ELSE IF leaf = <<".subvolume">> THEN (IF d.subvolume THEN "file" ELSE "none")
                 ELSE IF leaf = <<".trash">> THEN (IF d.trash.present THEN "dir" ELSE "none")
                 ELSE IF leaf \in VmNames THEN d.vms[leaf].kind
                 ELSE "none"
            ELSE "none"
    ELSE "none"

\* std::filesystem::read_symlink(p) for a symlink vm_root/vm
read_symlink(F, path) == F.root[filename(path)].target
SymlinkIsRelative(t) == t.rel
\* the path a symlink at `path` leads to
SymlinkDest(F, path) ==
    LET t == read_symlink(F, path) IN
    IF t.rel THEN parent_path(path) \o t.path ELSE t.path

\* stat(): the kind of the entry at path, a symlink followed (the model's
\* symlinks lead to directories that are not symlinks themselves)
Stat(F, path) ==
    IF Lstat(F, path) = "symlink" THEN Lstat(F, SymlinkDest(F, path)) ELSE Lstat(F, path)

exists(F, path) == Stat(F, path) # "none"
is_directory(F, path) == Stat(F, path) = "dir"
is_regular_file(F, path) == Stat(F, path) = "file"
is_symlink(F, path) == Lstat(F, path) = "symlink"

\* remove_all deleting nothing
remove_all_nothing(F, path) == F

\* std::filesystem::remove_all(path): the entry and everything below it
remove_all(F, path) ==
    LET n == Len(VmRoot) IN
    IF Lstat(F, path) = "none" \/ Len(path) <= n \/ SubSeq(path, 1, n) # VmRoot THEN F
    ELSE IF Len(path) = n + 1 THEN
        LET name == path[n + 1] IN
        IF name \in VmNames THEN [F EXCEPT !.root[name] = NoEnt]
        ELSE IF name = <<".trash">> THEN [F EXCEPT !.trash = NoTrash]
        ELSE \* a volume directory; a mount point is emptied but cannot be unlinked
            IF IsMounted(F, StripFirst(name))
            THEN SetVisible(F, StripFirst(name), EmptyDir)
            ELSE [F EXCEPT !.dirs[StripFirst(name)] = NoDir]
    ELSE
        LET v == StripFirst(path[n + 1])
            leaf == path[n + 2]
            d == Visible(F, v)
        IN  IF leaf = <<".trash">> THEN SetVisible(F, v, [d EXCEPT !.trash = NoTrash])
            ELSE IF leaf = <<".uuid">> THEN SetVisible(F, v, [d EXCEPT !.uuid = NoFile])
            ELSE IF leaf = <<".subvolume">> THEN SetVisible(F, v, [d EXCEPT !.subvolume = FALSE])
            ELSE SetVisible(F, v, [d EXCEPT !.vms[leaf] = NoEnt])

\* ------------------------------------------------------------- volume.cpp
Ok == "ok"

\* blkid answering with a UUID for every partition
get_partition_uuid_any(device) == make_optional("u1")

\* blkid: the UUID tag of a partition
get_partition_uuid(device) ==
    IF DeviceInfo[device].uuid = "" THEN nullopt ELSE make_optional(DeviceInfo[device].uuid)

\* mount() reporting success without an entry in the mount table
mount_not_recorded(F, source, mountpoint, ok) == [F |-> F, rc |-> IF ok THEN 0 ELSE -1]

\* mount(source, mountpoint): source is <<"UUID=", uuid>>; `ok` is whether the
\* kernel accepts the mount of the device found.  0 on success.
mount(F, source, mountpoint, ok) ==
    LET devs == {d \in Formatted : DeviceInfo[d].uuid = source[2]}
        tgts == {n \in VolumeNames : MountTarget(n) = mountpoint}
    IN  IF ok /\ devs # {} /\ tgts # {} /\ is_directory(F, mountpoint)
        THEN LET d == CHOOSE x \in devs : TRUE
                 n == CHOOSE x \in tgts : TRUE
             IN  [F |-> [F EXCEPT !.mounts[n] = Append(@, d)], rc |-> 0]
        ELSE [F |-> F, rc |-> -1]

\* umount(2) of the topmost mount on the target; `ok` FALSE is a busy mount
umount(F, target, ok) ==
    LET tgts == {n \in VolumeNames : MountTarget(n) = target /\ IsMounted(F, n)} IN
    IF ok /\ tgts # {}
    THEN LET n == CHOOSE x \in tgts : TRUE
         IN  [F |-> [F EXCEPT !.mounts[n] = SubSeq(@, 1, Len(@) - 1)], rc |-> 0]
    ELSE [F |-> F, rc |-> -1]

\* the mount table entry whose target is path, the last mounted first
get_source_device_from_mountpoint(F, path) ==
    IF ~exists(F, path) \/ ~is_directory(F, path) THEN nullopt
    ELSE LET tgts == {n \in VolumeNames : MountTarget(n) = path /\ IsMounted(F, n)} IN
         IF tgts = {} THEN nullopt
         ELSE LET n == CHOOSE x \in tgts : TRUE
              IN  make_optional(<<TopDevice(F, n), Fstype(TopDevice(F, n))>>)

\* get_volume_dir as the registry decides: a directory holding a .uuid marker
\* is a volume
get_volume_dir_by_marker(F, vm_root, volume_name) ==
    LET volume_dir == Slash(vm_root, AtName(volume_name)) IN
    IF volume_name = Default
    THEN (IF is_directory(F, volume_dir) THEN make_optional(volume_dir) ELSE nullopt)
    ELSE (IF exists(F, Slash(volume_dir, <<".uuid">>))
          THEN make_optional(volume_dir) ELSE nullopt)

\* get_volume_dir with the default volume being vm_root itself
get_volume_dir_default_is_root(F, vm_root, volume_name) ==
    LET volume_dir == Slash(vm_root, AtName(volume_name)) IN
    IF volume_name = Default
    THEN (IF is_directory(F, vm_root) THEN make_optional(vm_root) ELSE nullopt)
    ELSE (IF has_value(get_source_device_from_mountpoint(F, volume_dir))
          THEN make_optional(volume_dir) ELSE nullopt)

get_volume_dir(F, vm_root, volume_name) ==
    LET volume_dir == Slash(vm_root, AtName(volume_name)) IN
    IF volume_name = Default
    THEN (IF is_directory(F, volume_dir) THEN make_optional(volume_dir) ELSE nullopt)
    ELSE (IF has_value(get_source_device_from_mountpoint(F, volume_dir))
          THEN make_optional(volume_dir) ELSE nullopt)

\* get_volume knowing mounted volumes only
get_volume_mounted_only(F, path) ==
    IF ~is_directory(F, path) THEN nullopt
    ELSE IF filename(path)[1] # "@" THEN nullopt
    ELSE
        LET name == StripFirst(filename(path))
            device == get_source_device_from_mountpoint(F, path)
        IN  IF ~has_value(device) THEN nullopt
            ELSE make_optional([name |-> name, online |-> TRUE, path |-> path,
                                device_or_uuid |-> value(device)[1],
                                fstype |-> make_optional(value(device)[2])])

\* struct Volume for the directory at path, or nullopt when it is no volume
get_volume(F, path) ==
    IF ~is_directory(F, path) THEN nullopt
    ELSE IF filename(path)[1] # "@" THEN nullopt
    ELSE
        LET name == StripFirst(filename(path))
            device == get_source_device_from_mountpoint(F, path)
            uuid_file == Slash(path, <<".uuid">>)
        IN  IF ~has_value(device) /\ ~exists(F, uuid_file) THEN nullopt
            ELSE IF has_value(device)
            THEN make_optional([name |-> name, online |-> TRUE, path |-> path,
                                device_or_uuid |-> value(device)[1],
                                fstype |-> make_optional(value(device)[2])])
            ELSE make_optional([name |-> name, online |-> FALSE, path |-> <<>>,
                                device_or_uuid |-> Visible(F, name).uuid,
                                fstype |-> nullopt])

\* the entries of directory vm_root
directory_iterator(F, vm_root) ==
    {Slash(vm_root, AtName(n)) : n \in {x \in VolumeNames : F.dirs[x].kind = "dir"}}
    \cup {Slash(vm_root, vm) : vm \in {x \in VmNames : F.root[x].kind # "none"}}
    \cup (IF F.trash.present THEN {Slash(vm_root, <<".trash">>)} ELSE {})

\* the map name -> Volume of the volumes below vm_root
get_volume_list(F, vm_root) ==
    LET vols == {p \in directory_iterator(F, vm_root) : has_value(get_volume(F, p))}
        names == {value(get_volume(F, p)).name : p \in vols}
    IN  [n \in names |-> value(get_volume(F, Slash(vm_root, AtName(n))))]

\* std::filesystem::create_directories(vm_root/@name)
create_volume_directory(F, name) ==
    IF F.dirs[name].kind = "dir" \/ IsMounted(F, name) THEN F
    ELSE [F EXCEPT !.dirs[name] = EmptyDir]

\* add not noticing that the directory is a mount point
already_mounted_never(F, volume_path) == FALSE

\* add's test for a volume that is mounted (volume.cpp:271-273)
already_mounted(F, volume_path) ==
    has_value(get_source_device_from_mountpoint(F, volume_path))

\* add not noticing an existing marker
already_associated_never(F, uuid_file) == FALSE

\* add's test for an existing association (volume.cpp:275-278)
already_associated(F, uuid_file) == exists(F, uuid_file)

\* add leaving the directory behind when the mount fails
add_rollback_skipped(F, volume_path) == F

\* add's rollback of a failed mount (volume.cpp:297-300)
add_rollback(F, volume_path) == remove_all(F, volume_path)

\* the outcomes of writing the .uuid marker: none fails, or the open, the
\* write or the close does
WriteFailures == {"none", "open", "write", "close"}

\* volume::add.  mok: the mount is accepted; wfail: the step of the marker
\* write that fails.  Gives the filesystem afterwards and the error thrown.
add(F, vm_root, name, device, mok, wfail) ==
    IF name = Default THEN [F |-> F, err |-> "Default volume cannot be modified"]
    ELSE IF ~DeviceInfo[device].exists \/ ~DeviceInfo[device].block
    THEN [F |-> F, err |-> "does not exist(or is not a block device)"]
    ELSE
    LET uuid == IF has_value(get_partition_uuid(device))
                THEN value(get_partition_uuid(device)) ELSE ""
        volume_path == Slash(vm_root, AtName(name))
        uuid_file == Slash(volume_path, <<".uuid">>)
        subvolume_file == Slash(volume_path, <<".subvolume">>)
    IN
    IF uuid = "" THEN [F |-> F, err |-> "has no UUID(not formatted?)"]
    ELSE IF already_mounted(F, volume_path)
    THEN [F |-> F, err |-> "has already been mounted"]
    ELSE IF already_associated(F, uuid_file)
    THEN [F |-> F, err |-> "has already been associated to a partition"]
    ELSE
    LET F1 == create_volume_directory(F, name)
        F2 == IF exists(F1, subvolume_file) THEN remove_all(F1, subvolume_file) ELSE F1
        F3 == SetVisible(F2, name, [Visible(F2, name) EXCEPT !.uuid = ""])
        F4 == SetVisible(F2, name, [Visible(F2, name) EXCEPT !.uuid = uuid])
    IN
    IF wfail = "open" THEN [F |-> F2, err |-> "Failed to open"]
    ELSE IF wfail = "write" THEN [F |-> F3, err |-> "Failed writing to"]
    ELSE IF wfail = "close" THEN [F |-> F4, err |-> "Failed to close"]
    ELSE
    LET m == mount(F4, <<"UUID=", uuid>>, volume_path, mok) IN
    IF m.rc # 0
    THEN [F |-> add_rollback(m.F, volume_path), err |-> "Failed to mount"]
    ELSE [F |-> m.F, err |-> Ok]

\* remove ignoring the unmount's result
umount_failed_ignored(rst) == FALSE

\* remove's test of the unmount's result (volume.cpp:315-318)
umount_failed(rst) == rst < 0

\* volume::remove.  uok: the unmount is accepted (FALSE: the mount is busy).
remove(F, vm_root, name, uok) ==
    IF name = Default THEN [F |-> F, err |-> "Default volume cannot be modified"]
    ELSE
    LET volume_path == Slash(vm_root, AtName(name)) IN
    IF ~exists(F, volume_path) THEN [F |-> F, err |-> "does not exist"]
    ELSE IF has_value(get_source_device_from_mountpoint(F, volume_path))
    THEN LET u == umount(F, volume_path, uok) IN
         IF umount_failed(u.rc) THEN [F |-> F, err |-> "Unable to unmount"]
         ELSE [F |-> remove_all(u.F, volume_path), err |-> Ok]
    ELSE [F |-> remove_all(F, volume_path), err |-> Ok]

\* get_source_device_from_mountpoint throws "Cannot open /proc/self/mountinfo":
\* path is a directory and the mount table cannot be read (tb FALSE).  A path
\* that is no directory is answered before the table is opened.
mountinfo_throws(F, path, tb) == exists(F, path) /\ is_directory(F, path) /\ ~tb

\* get_volume(path) lets that exception through
get_volume_throws(F, path, tb) ==
    /\ is_directory(F, path)
    /\ filename(path)[1] = "@"
    /\ mountinfo_throws(F, path, tb)

\* struct ListOptions
ListOptions == [online_only : BOOLEAN, names_only : BOOLEAN]

\* volume::list.  tb: /proc/self/mountinfo can be read.  Gives the error
\* thrown, the value returned and the volumes printed.
list(F, vm_root, options, tb) ==
    IF \E p \in directory_iterator(F, vm_root) : get_volume_throws(F, p, tb)
    THEN [err |-> "Cannot open /proc/self/mountinfo", rc |-> 1, rows |-> {}]
    ELSE LET volumes == get_volume_list(F, vm_root) IN
         [err |-> Ok, rc |-> 0,
          rows |-> {volumes[n] : n \in {x \in DOMAIN volumes :
                                            ~(options.online_only /\ ~volumes[x].online)}}]

\* std::ifstream f(uuid_file); !f is false: the tool runs as root, an
\* existing marker opens
ifstream_opens(F, uuid_file) == exists(F, uuid_file)

\* f >> uuid: the content of the marker below volume directory vm_root/@name
read_uuid(F, name) == Visible(F, name).uuid

\* scan's test for a volume that needs no mount (volume.cpp:335)
scan_skips_mounted(F, path) == has_value(get_source_device_from_mountpoint(F, path))

\* scan treating the reserved name like any other
scan_skips_reserved_never(name) == FALSE

\* scan leaves vm_root/@default alone (volume.cpp:333)
scan_skips_reserved(name) == name = Default

\* scan giving up at the first mount that fails
scan_continues_stop_at_failure(failed) == failed = {}

\* scan's loop goes on to the next entry whatever the mounts before it did
\* (volume.cpp:346-350: both branches only print)
scan_continues(failed) == TRUE

\* one iteration of scan's loop, for directory entry `path`.  oks: the names
\* whose mount the kernel accepts.  Gives the filesystem afterwards and what
\* was printed: "mounted", "failed", or nothing ("skipped").
scan_entry(F, path, oks) ==
    LET fname == filename(path)
        name == StripFirst(fname)
        uuid_file == Slash(path, <<".uuid">>)
        Skip == [F |-> F, report |-> "skipped"]
    IN
    IF ~is_directory(F, path) THEN Skip
    ELSE IF fname[1] # "@" THEN Skip
    ELSE IF scan_skips_reserved(name) THEN Skip
    ELSE IF scan_skips_mounted(F, path) THEN Skip
    ELSE IF ~exists(F, uuid_file) \/ ~is_regular_file(F, uuid_file) THEN Skip
    ELSE IF ~ifstream_opens(F, uuid_file) THEN Skip
    ELSE
    LET uuid == read_uuid(F, name)
        m == mount(F, <<"UUID=", uuid>>, path, name \in oks)
    IN  IF m.rc = 0 THEN [F |-> m.F, report |-> "mounted"]
        ELSE [F |-> m.F, report |-> "failed"]

\* the loop of scan over the entries left to visit
RECURSIVE scan_loop(_, _, _, _, _)
scan_loop(F, entries, oks, mounted, failed) ==
    IF entries = {} \/ ~scan_continues(failed)
    THEN [F |-> F, rc |-> 0, mounted |-> mounted, failed |-> failed]
    ELSE LET path == CHOOSE p \in entries : TRUE
             e == scan_entry(F, path, oks)
             name == StripFirst(filename(path))
         IN  scan_loop(e.F, entries \ {path}, oks,
                       IF e.report = "mounted" THEN mounted \cup {name} ELSE mounted,
                       IF e.report = "failed" THEN failed \cup {name} ELSE failed)

\* volume::scan.  Gives the filesystem afterwards, the value returned and the
\* names printed as mounted and as not mountable.
scan(F, vm_root, oks) == scan_loop(F, directory_iterator(F, vm_root), oks, {}, {})

\* clean aiming at the volume directory itself
clean_target_whole_volume(volume_dir) == volume_dir

\* the subtree clean removes: *volume_dir / ".trash" (volume.cpp:232)
clean_target(volume_dir) == Slash(volume_dir, <<".trash">>)

\* static clean(vm_root, volume_name).  rfail: remove_all throws.  Gives the
\* filesystem afterwards and the error thrown.
clean_static(F, vm_root, volume_name, rfail) ==
    LET volume_dir == get_volume_dir(F, vm_root, volume_name) IN
    IF ~has_value(volume_dir) THEN [F |-> F, err |-> "No such volume"]
    ELSE IF rfail THEN [F |-> F, err |-> "cannot remove all"]
    ELSE [F |-> remove_all(F, clean_target(value(volume_dir))), err |-> Ok]

\* the loop of volume::clean over the volumes left to visit
RECURSIVE clean_loop(_, _, _, _, _)
clean_loop(F, vm_root, names, fails, all_success) ==
    IF names = {} THEN [F |-> F, err |-> Ok, rc |-> IF all_success THEN 0 ELSE 1]
    ELSE LET n == CHOOSE x \in names : TRUE
             r == clean_static(F, vm_root, n, n \in fails)
         IN  clean_loop(r.F, vm_root, names \ {n}, fails, all_success /\ r.err = Ok)

\* volume::clean.  volume_name: the optional name given; fails: the volumes
\* on which remove_all throws.  Gives the filesystem afterwards, the error
\* thrown and the value returned.
clean(F, vm_root, volume_name, fails) ==
    IF has_value(volume_name)
    THEN LET r == clean_static(F, vm_root, value(volume_name), value(volume_name) \in fails)
         IN  [F |-> r.F, err |-> r.err, rc |-> IF r.err = Ok THEN 0 ELSE 1]
    ELSE LET volumes == get_volume_list(F, vm_root)
         IN  clean_loop(F, vm_root, {n \in DOMAIN volumes : volumes[n].online}, fails, TRUE)

\* localtime(&t)->tm_wday for a time in days since the epoch, a Thursday
tm_wday(t) == (t + 4) % 7

\* btrfs_util_is_subvolume(path) on a volume path: the root of a mounted
\* btrfs filesystem is one, the empty path of an offline volume is not
btrfs_util_is_subvolume(F, path) ==
    /\ path # <<>>
    /\ has_value(get_source_device_from_mountpoint(F, path))
    /\ value(get_source_device_from_mountpoint(F, path))[2] = "btrfs"

\* what a failing step of snapshot may be
SnapshotFailures == {"none", "info", "delete", "rename", "mkdir", "create"}

\* the rotation keeping the snapshot that occupies the weekday slot
rotate_keeps_occupant(entries, subvol) ==
    LET dow == DOWSTR[tm_wday(subvol.otime) + 1] IN
    IF entries[dow].present THEN [entries EXCEPT !["head"] = NoSubvol]
    ELSE [entries EXCEPT ![dow] = subvol, !["head"] = NoSubvol]

\* delete the weekday slot of head's creation day, rename head into it
\* (volume.cpp:161-167)
rotate(entries, subvol) ==
    LET dow == DOWSTR[tm_wday(subvol.otime) + 1] IN
    [entries EXCEPT ![dow] = subvol, !["head"] = NoSubvol]

\* static snapshot(path) at time t.  S: the snapshots of every device.
\* fail: the step that fails.  Gives the snapshots afterwards and the error
\* thrown.
snapshot_static(F, S, path, t, fail) ==
    IF ~btrfs_util_is_subvolume(F, path)
    THEN [S |-> S, err |-> "is offline or not a btrfs volume"]
    ELSE
        LET d == value(get_source_device_from_mountpoint(F, path))[1]
            head == S[d].entries["head"]
            dow == DOWSTR[tm_wday(head.otime) + 1]
            occupied == S[d].entries[dow].present
            \* btrfs_util_delete_subvolume: its result is not looked at
            deleted == IF occupied /\ fail # "delete"
                       THEN [S[d].entries EXCEPT ![dow] = NoSubvol] ELSE S[d].entries
            rotated == IF head.present THEN rotate(S[d].entries, head) ELSE S[d].entries
        IN  IF head.present /\ fail = "info"
            THEN [S |-> S, err |-> "Inspecting subvolume failed"]
            ELSE IF head.present /\ ((occupied /\ fail = "delete") \/ fail = "rename")
            THEN [S |-> [S EXCEPT ![d].entries = deleted], err |-> "cannot rename"]
            ELSE IF ~S[d].present /\ fail = "mkdir"
            THEN [S |-> S, err |-> "cannot create directory"]
            ELSE IF fail = "create"
            THEN [S |-> [S EXCEPT ![d] = [present |-> TRUE, entries |-> rotated]],
                  err |-> "Creating readonly snapshot failed"]
            ELSE [S |-> [S EXCEPT ![d] = [present |-> TRUE,
                                         entries |-> [rotated EXCEPT !["head"] =
                                             [present |-> TRUE, otime |-> t, read_only |-> TRUE]]]],
                  err |-> Ok]

\* volume::snapshot
snapshot(F, S, vm_root, volume_name, t, fail) ==
    LET volume == get_volume(F, Slash(vm_root, AtName(volume_name))) IN
    IF ~has_value(volume) THEN [S |-> S, err |-> "does not exist", rc |-> 1]
    ELSE LET r == snapshot_static(F, S, value(volume).path, t, fail)
         IN  [S |-> r.S, err |-> r.err, rc |-> IF r.err = Ok THEN 0 ELSE 1]

\* ----------------------------------------------------------------- vm.cpp
Letters == {"a", "b", "c", "d", "e", "f", "g", "h", "i", "j", "k", "l", "m",
            "n", "o", "p", "q", "r", "s", "t", "u", "v", "w", "x", "y", "z"}
AllowedChars == Letters \cup Digits \cup {"-"}
MaxVmNameLen == 63

\* the options of vm create other than --volume
OptionSets ==
    { [system_file |-> make_optional(<<"system.img">>), memory |-> make_optional(1024),
       cpu |-> make_optional(2), data_partition |-> make_optional(1)] }
\* struct CreateOptions, the volume drawn from vols or absent
CreateOptions(vols) ==
    { [volume |-> v, system_file |-> o.system_file, memory |-> o.memory, cpu |-> o.cpu,
       data_partition |-> o.data_partition] :
        v \in {nullopt} \cup {make_optional(n) : n \in vols}, o \in OptionSets }

\* the directory vm create builds from its options
VmDirOf(options) ==
    [kind |-> "dir",
     system |-> has_value(options.system_file),
     ini |-> (IF has_value(options.memory) THEN << <<"memory", value(options.memory)>> >> ELSE <<>>)
             \o (IF has_value(options.cpu) THEN << <<"cpu", value(options.cpu)>> >> ELSE <<>>),
     data |-> options.data_partition]

\* the directory (not a symlink) at path vm_root/vm or vm_root/@v/vm
DirAt(F, path) ==
    LET n == Len(VmRoot) IN
    IF Len(path) = n + 1 THEN F.root[path[n + 1]]
    ELSE Visible(F, StripFirst(path[n + 1])).vms[path[n + 2]]
\* put directory d at path vm_root/vm or vm_root/@v/vm
PutDir(F, path, d) ==
    LET n == Len(VmRoot) IN
    IF Len(path) = n + 1 THEN [F EXCEPT !.root[path[n + 1]] = d]
    ELSE LET v == StripFirst(path[n + 1])
         IN  SetVisible(F, v, [Visible(F, v) EXCEPT !.vms[path[n + 2]] = d])

\* the test both resolvers start with: vm_dir, symlinks followed, is no
\* directory (vm.cpp:54, vm.cpp:507)
vm_missing(F, vm_dir) == ~exists(F, vm_dir) \/ ~is_directory(F, vm_dir)

\* the volume column of vm list: the error thrown, or the optional name
get_volume_name_from_vm_name(F, vm_root, vmname) ==
    LET vm_dir == Slash(vm_root, vmname) IN
    IF vm_missing(F, vm_dir)
    THEN [err |-> "does not exist", volume |-> nullopt]
    ELSE IF ~is_symlink(F, vm_dir) THEN [err |-> Ok, volume |-> nullopt]
    ELSE
    LET symlink == read_symlink(F, vm_dir)
        real_vm_dir == IF SymlinkIsRelative(symlink)
                       THEN parent_path(vm_dir) \o read_symlink(F, vm_dir).path
                       ELSE symlink.path
        volume_dir == parent_path(real_vm_dir)
        volume_name == filename(volume_dir)
    IN
    IF volume_name[1] # "@" THEN [err |-> Ok, volume |-> nullopt]
    ELSE
    LET volume_dir_should_be == get_volume_dir(F, vm_root, StripFirst(volume_name)) IN
    IF ~has_value(volume_dir_should_be) THEN [err |-> Ok, volume |-> nullopt]
    ELSE IF volume_dir_should_be = make_optional(volume_dir)
    THEN [err |-> Ok, volume |-> make_optional(StripFirst(volume_name))]
    ELSE [err |-> Ok, volume |-> nullopt]

\* the first loop of vm::list: a row for every directory of vm_root whose
\* name starts with neither '@' nor '.'
list_rows(F, vm_root, autostarts) ==
    [n \in ListNames |->
        IF n \in VmNames /\ is_directory(F, Slash(vm_root, n))
        THEN [present |-> TRUE, running |-> FALSE,
              volume |-> get_volume_name_from_vm_name(F, vm_root, n).volume,
              autostart |-> make_optional(n \in autostarts),
              ip_address |-> nullopt]
        ELSE NoRow]

\* the second loop of vm::list: the VMs `vm show` reports are running
list_running(vms, json) ==
    [n \in ListNames |->
        IF json[n].present THEN [vms[n] EXCEPT !.present = TRUE, !.running = TRUE]
        ELSE vms[n]]

\* what connect and the query may come to
ConnectOutcomes == {"ok", "refused", "socket() failed"}
QueryOutcomes == {"ipv4", "no ipv4", "no return", "timeout",
                  "Error sending message via socket", "poll() failed",
                  "Error receiving message via socket"}

\* qga_execute_query: the error thrown, or the optional reply
qga_execute_query(outcome) ==
    CASE outcome \in {"Error sending message via socket", "poll() failed",
                      "Error receiving message via socket"}
           -> [err |-> outcome, res |-> nullopt]
      [] outcome = "timeout" -> [err |-> Ok, res |-> nullopt]
      [] OTHER -> [err |-> Ok, res |-> make_optional(outcome)]

\* the address of VM n
Address(n) == <<"10.0.0">> \o n

\* what the query returns for a reply: the first ipv4 address of an
\* interface other than lo, or nothing
qga_address(n, res) ==
    IF ~has_value(res) \/ value(res) = "no return" THEN nullopt
    ELSE IF value(res) = "ipv4" THEN make_optional(Address(n))
    ELSE nullopt

\* every query has been waited for
pending_nothing(L) == {}

\* the queries thread.get() has not been called on yet
pending(L) == {n \in ListNames : L.threads[n].state # "none"} \ L.joined

\* the first of them in the order of the map
first_pending(L) ==
    LET i == CHOOSE j \in DOMAIN NameOrder :
                 /\ NameOrder[j] \in pending(L)
                 /\ \A k \in DOMAIN NameOrder : NameOrder[k] \in pending(L) => j <= k
    IN  NameOrder[i]

\* the symlink target without the volume prefix
symlink_target_unprefixed(volume, vmname) == [rel |-> TRUE, path |-> <<volume, vmname>>]

\* the target of the symlink vm create leaves at vm_root/vmname (vm.cpp:470)
symlink_target(volume, vmname) == [rel |-> TRUE, path |-> <<AtName(volume), vmname>>]

\* the steps of vm create's try block that can fail: all throw but the write
\* of vm.ini, whose stream is never tested
CreateFailures == {"none", "mkdir", "copy", "ini", "data", "symlink"}

\* vm::create.  fail: the step of the try block that throws, if it is run.
create(F, vm_root, vmname, options, fail) ==
    IF Len(vmname) > MaxVmNameLen
    THEN [F |-> F, err |-> "VM name must be 63 characters or less"]
    ELSE IF vmname[1] = "-" \/ vmname[Len(vmname)] = "-"
    THEN [F |-> F, err |-> "VM name must not start or end with '-'"]
    ELSE IF \E i \in 1..(Len(vmname) - 1) : vmname[i] = "-" /\ vmname[i + 1] = "-"
    THEN [F |-> F, err |-> "VM name must not contain consecutive '-'"]
    ELSE IF \E i \in 1..Len(vmname) : vmname[i] \notin AllowedChars
    THEN [F |-> F, err |-> "VM name must contain only alphanumeric characters and '-'"]
    ELSE IF \A i \in 1..Len(vmname) : vmname[i] \in Digits
    THEN [F |-> F, err |-> "VM name must not be all digits"]
    ELSE
    LET vm_dir == Slash(vm_root, vmname) IN
    IF exists(F, vm_dir) THEN [F |-> F, err |-> "already exists"]
    ELSE
    LET volume_dir == IF has_value(options.volume)
                      THEN get_volume_dir(F, vm_root, value(options.volume))
                      ELSE nullopt
    IN
    IF has_value(options.volume) /\ ~has_value(volume_dir)
    THEN [F |-> F, err |-> "does not exist or offline"]
    ELSE IF has_value(options.volume) /\ exists(F, Slash(value(volume_dir), vmname))
    THEN [F |-> F, err |-> "real_vm_dir already exists"]
    ELSE
    LET real_vm_dir == IF has_value(options.volume)
                       THEN Slash(value(volume_dir), vmname) ELSE vm_dir
        symlink == IF has_value(options.volume)
                   THEN make_optional(symlink_target(value(options.volume), vmname))
                   ELSE nullopt
        \* create_directories fails on a path occupied by a dangling symlink
        mkdir_fails == fail = "mkdir" \/ Lstat(F, real_vm_dir) # "none"
        copy_fails == fail = "copy" /\ has_value(options.system_file)
        data_fails == fail = "data" /\ has_value(options.data_partition)
        \* create_directory_symlink fails when vm_dir is occupied
        symlink_fails == has_value(symlink) /\ (fail = "symlink" \/ Lstat(F, vm_dir) # "none")
        \* a failed std::ofstream leaves vm.ini empty and throws nothing
        written == IF fail = "ini" THEN [VmDirOf(options) EXCEPT !.ini = <<>>]
                   ELSE VmDirOf(options)
        built == PutDir(F, real_vm_dir, written)
    IN
    IF mkdir_fails THEN [F |-> remove_all(F, real_vm_dir), err |-> "create failed"]
    ELSE IF copy_fails \/ data_fails \/ symlink_fails
    THEN [F |-> remove_all(built, real_vm_dir), err |-> "create failed"]
    ELSE IF has_value(symlink)
    THEN [F |-> [built EXCEPT !.root[vmname] = [kind |-> "symlink", target |-> value(symlink)]],
          err |-> Ok]
    ELSE [F |-> built, err |-> Ok]

\* uuid_unparse_lower of the k-th identifier uuid_generate() hands out
uuid_unparse_lower(k) == <<ToString(k)>>

\* a trash entry named after the VM alone
TrashName_no_suffix(vmname, uuid_str) == vmname

\* the name vmname + '.' + uuid_str of a trash entry
TrashName(vmname, uuid_str) == vmname \o <<".">> \o uuid_str

\* create_directories(parent/.trash), parent being vm_root or a volume directory
create_trash_dir(F, vm_root, parent) ==
    IF parent = vm_root THEN [F EXCEPT !.trash.present = TRUE]
    ELSE LET v == StripFirst(filename(parent))
         IN  SetVisible(F, v, [Visible(F, v) EXCEPT !.trash.present = TRUE])
TrashOf(F, vm_root, parent) ==
    IF parent = vm_root THEN F.trash ELSE Visible(F, StripFirst(filename(parent))).trash

\* std::filesystem::rename(real_vm_dir, parent/.trash/name): fails when the
\* target is an existing (non-empty) directory
rename_to_trash(F, vm_root, real_vm_dir, parent, name) ==
    LET d == DirAt(F, real_vm_dir)
        entry == [name |-> name, dir |-> d]
    IN
    IF \E e \in TrashOf(F, vm_root, parent).entries : e.name = name
    THEN [F |-> F, ok |-> FALSE]
    ELSE IF parent = vm_root
    THEN [F |-> [remove_all(F, real_vm_dir) EXCEPT !.trash.entries = @ \cup {entry}],
          ok |-> TRUE]
    ELSE LET v == StripFirst(filename(parent))
             G == remove_all(F, real_vm_dir)
         IN  [F |-> SetVisible(G, v, [Visible(G, v) EXCEPT !.trash.entries = @ \cup {entry}]),
              ok |-> TRUE]

\* the placement lambda taking every directory vm_root/@name for a volume,
\* mounted or not
delete_resolve_by_directory(F, vm_root, vm_dir) ==
    IF ~is_symlink(F, vm_dir)
    THEN [err |-> Ok, real_vm_dir |-> vm_dir, volume_dir |-> nullopt]
    ELSE
    LET real_vm_dir == SymlinkDest(F, vm_dir)
        volume_dir == parent_path(real_vm_dir)
        volume_name == filename(volume_dir)
        Fail(e) == [err |-> e, real_vm_dir |-> <<>>, volume_dir |-> nullopt]
    IN
    IF volume_name[1] # "@" THEN Fail("is not a volume path")
    ELSE IF ~is_directory(F, Slash(vm_root, volume_name)) THEN Fail("Volume does not exist")
    ELSE IF Slash(vm_root, volume_name) # volume_dir
    THEN Fail("does not point VM dir right under volume")
    ELSE [err |-> Ok, real_vm_dir |-> real_vm_dir, volume_dir |-> make_optional(volume_dir)]

\* the placement vm::_delete works out for vm_dir (the lambda of
\* vm.cpp:511-526): the error thrown, or the real directory and, for a
\* symlink, the volume directory holding it
delete_resolve(F, vm_root, vm_dir) ==
    IF ~is_symlink(F, vm_dir)
    THEN [err |-> Ok, real_vm_dir |-> vm_dir, volume_dir |-> nullopt]
    ELSE
    LET symlink == read_symlink(F, vm_dir)
        real_vm_dir == IF SymlinkIsRelative(symlink)
                       THEN parent_path(vm_dir) \o read_symlink(F, vm_dir).path
                       ELSE symlink.path
        volume_dir == parent_path(real_vm_dir)
        volume_name == filename(volume_dir)
        Fail(e) == [err |-> e, real_vm_dir |-> <<>>, volume_dir |-> nullopt]
    IN
    IF volume_name[1] # "@" THEN Fail("is not a volume path")
    ELSE
    LET volume_dir_should_be == get_volume_dir(F, vm_root, StripFirst(volume_name)) IN
    IF ~has_value(volume_dir_should_be) THEN Fail("Volume does not exist")
    ELSE IF volume_dir_should_be # make_optional(volume_dir)
    THEN Fail("does not point VM dir right under volume")
    ELSE [err |-> Ok, real_vm_dir |-> real_vm_dir, volume_dir |-> make_optional(volume_dir)]

\* the trash of vm_root used for every VM
trash_parent_always_root(volume_dir, vm_root) == vm_root

\* the directory holding the .trash a deleted VM goes to (vm.cpp:540)
trash_parent(volume_dir, vm_root) ==
    IF has_value(volume_dir) THEN value(volume_dir) ELSE vm_root

\* is_running finding no VM active
is_running_never(vmname, active_services) == FALSE

\* is_running(vmname): systemctl is-active of the VM's service succeeds
is_running(vmname, active_services) == vmname \in active_services

\* vm::_delete.  active: systemctl is-active; uuid_str: the identifier drawn.
\* Gives the filesystem afterwards, the error thrown, whether autostart was
\* disabled and whether an identifier was drawn.
_delete(F, vm_root, vmname, active, uuid_str) ==
    LET vm_dir == Slash(vm_root, vmname)
        Fail(e) == [F |-> F, err |-> e, disabled |-> FALSE, drawn |-> FALSE]
    IN
    IF vm_missing(F, vm_dir) THEN Fail("does not exist")
    ELSE
    LET p == delete_resolve(F, vm_root, vm_dir) IN
    IF p.err # Ok THEN Fail(p.err)
    ELSE IF active THEN Fail("is running")
    ELSE
    LET F1 == IF is_symlink(F, vm_dir) THEN [F EXCEPT !.root[vmname] = NoEnt] ELSE F
        parent == trash_parent(p.volume_dir, vm_root)
        F2 == create_trash_dir(F1, vm_root, parent)
        r == rename_to_trash(F2, vm_root, p.real_vm_dir, parent, TrashName(vmname, uuid_str))
    IN
    IF r.ok THEN [F |-> r.F, err |-> Ok, disabled |-> TRUE, drawn |-> TRUE]
    ELSE [F |-> F2, err |-> "rename failed", disabled |-> TRUE, drawn |-> TRUE]

\* ---------------------------------------------------------------- actions
\* the last command run and the error it ended with (Ok: none); for scan also
\* the volumes it printed as mounted and as not mountable
Outcome(op, err) == [op |-> op, err |-> err, mounted |-> {}, failed |-> {}]

SetFS(F) ==
    /\ dirs' = F.dirs
    /\ mounts' = F.mounts
    /\ devfs' = F.devfs
    /\ root' = F.root
    /\ trash' = F.trash

Init ==
    /\ dirs = [n \in VolumeNames |-> NoDir]
    /\ mounts = [n \in VolumeNames |-> <<>>]
    /\ devfs = [d \in Formatted |-> EmptyDir]
    /\ root = [vm \in VmNames |-> NoEnt]
    /\ trash = NoTrash
    /\ running = {}
    /\ enabled = {}
    /\ uuid_gen = 0
    /\ snapshots = [d \in Formatted |-> NoSnapshots]
    /\ now = 0
    /\ listing = NoListing
    /\ result = Outcome("boot", Ok)

\* wb volume add <name> <device>
volume_add(name, device, mok, wfail) ==
    LET r == add(FS, VmRoot, name, device, mok, wfail) IN
    /\ SetFS(r.F)
    /\ result' = Outcome("volume add", r.err)
    /\ UNCHANGED <<running, enabled, uuid_gen, snapshots, now, listing>>

\* wb volume remove <name>
volume_remove(name, uok) ==
    LET r == remove(FS, VmRoot, name, uok) IN
    /\ SetFS(r.F)
    /\ result' = Outcome("volume remove", r.err)
    /\ UNCHANGED <<running, enabled, uuid_gen, snapshots, now, listing>>

\* wb volume scan
volume_scan(oks) ==
    LET r == scan(FS, VmRoot, oks) IN
    /\ SetFS(r.F)
    /\ result' = [op |-> "volume scan", err |-> Ok, mounted |-> r.mounted, failed |-> r.failed]
    /\ UNCHANGED <<running, enabled, uuid_gen, snapshots, now, listing>>

\* wb volume list
volume_list(options, tb) ==
    LET r == list(FS, VmRoot, options, tb) IN
    /\ result' = Outcome("volume list", r.err)
    /\ UNCHANGED <<dirs, mounts, devfs, root, trash, running, enabled, uuid_gen, snapshots, now, listing>>

\* wb volume clean [<name>]
volume_clean(volume_name, fails) ==
    LET r == clean(FS, VmRoot, volume_name, fails) IN
    /\ SetFS(r.F)
    /\ result' = Outcome("volume clean", IF r.err = Ok /\ r.rc = 1 THEN "returned 1" ELSE r.err)
    /\ UNCHANGED <<running, enabled, uuid_gen, snapshots, now, listing>>

\* wb volume snapshot <name>
volume_snapshot(volume_name, fail) ==
    LET r == snapshot(FS, snapshots, VmRoot, volume_name, now, fail) IN
    /\ snapshots' = r.S
    /\ result' = Outcome("volume snapshot", r.err)
    /\ UNCHANGED <<dirs, mounts, devfs, root, trash, running, enabled, uuid_gen, now, listing>>

\* a day passes
tick ==
    /\ now < MaxDay
    /\ now' = now + 1
    /\ result' = Outcome("tick", Ok)
    /\ UNCHANGED <<dirs, mounts, devfs, root, trash, running, enabled, uuid_gen, snapshots, listing>>

\* wb list, up to the launch of the guest-agent queries.  entries: the VMs
\* `vm show` reports; show_ok: the subprocess ended well; deferred: the
\* queries std::async leaves to run at get().
vm_list_begin(entries, show_ok, deferred) ==
    /\ listing.pc = "idle"
    /\ IF ~show_ok
       THEN listing' = [listing EXCEPT !.pc = "failed", !.err = "subprocess exited with error"]
       ELSE listing' =
              [pc |-> "get",
               json |-> entries,
               vms |-> list_running(list_rows(FS, VmRoot, enabled), entries),
               threads |-> [n \in ListNames |->
                              IF entries[n].present /\ entries[n].qga
                              THEN [NoThread EXCEPT !.state =
                                      IF n \in deferred THEN "deferred" ELSE "launched"]
                              ELSE NoThread],
               joined |-> {},
               out |-> NoOutput,
               err |-> Ok]
    /\ UNCHANGED <<dirs, mounts, devfs, root, trash, running, enabled, uuid_gen, snapshots, now, result>>

\* the query of VM n: socket() and connect()
qga_connect(n, outcome) ==
    /\ listing.threads[n].state = "launched"
    /\ listing' = [listing EXCEPT !.threads[n] =
           CASE outcome = "ok" -> [@ EXCEPT !.state = "connected"]
             [] outcome = "refused" -> [@ EXCEPT !.state = "returned", !.via = "refused"]
             [] OTHER -> [@ EXCEPT !.state = "threw", !.via = outcome]]
    /\ UNCHANGED <<dirs, mounts, devfs, root, trash, running, enabled, uuid_gen, snapshots, now, result>>

\* the query of VM n: qga_execute_query and the search of its reply
qga_query(n, outcome) ==
    /\ listing.threads[n].state = "connected"
    /\ listing' = [listing EXCEPT !.threads[n] =
           LET r == qga_execute_query(outcome) IN
           IF r.err # Ok THEN [@ EXCEPT !.state = "threw", !.via = outcome]
           ELSE [state |-> "returned", via |-> outcome, value |-> qga_address(n, r.res)]]
    /\ UNCHANGED <<dirs, mounts, devfs, root, trash, running, enabled, uuid_gen, snapshots, now, result>>

\* wb list at thread.get() of the next VM of the map: a deferred query
\* starts now, a finished one hands over its result or its exception
vm_list_get ==
    /\ listing.pc = "get"
    /\ pending(listing) # {}
    /\ LET n == first_pending(listing)
           t == listing.threads[n]
       IN  /\ t.state \in {"deferred", "returned", "threw"}
           /\ listing' =
                 CASE t.state = "deferred" -> [listing EXCEPT !.threads[n].state = "launched"]
                   [] t.state = "returned" ->
                        [listing EXCEPT !.vms[n].ip_address = t.value,
                                        !.joined = @ \cup {n}]
                   [] OTHER -> [listing EXCEPT !.pc = "unwind", !.err = t.via,
                                               !.joined = @ \cup {n}]
    /\ UNCHANGED <<dirs, mounts, devfs, root, trash, running, enabled, uuid_gen, snapshots, now, result>>

\* wb list leaving with the exception of a query: the futures of the
\* queries under way are waited for as the map is destroyed
vm_list_unwind ==
    /\ listing.pc = "unwind"
    /\ \A n \in ListNames : listing.threads[n].state \in {"none", "deferred", "returned", "threw"}
    /\ listing' = [listing EXCEPT !.pc = "failed"]
    /\ UNCHANGED <<dirs, mounts, devfs, root, trash, running, enabled, uuid_gen, snapshots, now, result>>

\* wb list printing the table, every thread.get() done
vm_list_print ==
    /\ listing.pc = "get"
    /\ pending(listing) = {}
    /\ listing' = [listing EXCEPT !.pc = "done", !.out = [printed |-> TRUE, rows |-> listing.vms]]
    /\ UNCHANGED <<dirs, mounts, devfs, root, trash, running, enabled, uuid_gen, snapshots, now, result>>

\* wb list ends: 0 after the table, the exception otherwise
vm_list_end ==
    /\ listing.pc \in {"done", "failed"}
    /\ listing' = NoListing
    /\ result' = Outcome("list", listing.err)
    /\ UNCHANGED <<dirs, mounts, devfs, root, trash, running, enabled, uuid_gen, snapshots, now>>

\* wb create [--volume v] <vmname>
vm_create(vmname, options, fail) ==
    LET r == create(FS, VmRoot, vmname, options, fail) IN
    /\ SetFS(r.F)
    /\ result' = Outcome("create", r.err)
    /\ UNCHANGED <<running, enabled, uuid_gen, snapshots, now, listing>>

\* wb delete <vmname>
vm_delete(vmname) ==
    LET r == _delete(FS, VmRoot, vmname, is_running(vmname, running),
                     uuid_unparse_lower(uuid_gen + 1)) IN
    /\ r.drawn => uuid_gen < MaxUuid
    /\ SetFS(r.F)
    /\ enabled' = IF r.disabled THEN enabled \ {vmname} ELSE enabled
    /\ uuid_gen' = IF r.drawn THEN uuid_gen + 1 ELSE uuid_gen
    /\ result' = Outcome("delete", r.err)
    /\ UNCHANGED <<running, snapshots, now, listing>>

\* wb start <vmname>: the service starts when the VM directory is there
vm_start(vmname) ==
    /\ vmname \notin running
    /\ is_directory(FS, Slash(VmRoot, vmname))
    /\ running' = running \cup {vmname}
    /\ result' = Outcome("start", Ok)
    /\ UNCHANGED <<dirs, mounts, devfs, root, trash, enabled, uuid_gen, snapshots, now, listing>>

\* wb stop <vmname>, or the guest shutting down
vm_stop(vmname) ==
    /\ vmname \in running
    /\ running' = running \ {vmname}
    /\ result' = Outcome("stop", Ok)
    /\ UNCHANGED <<dirs, mounts, devfs, root, trash, enabled, uuid_gen, snapshots, now, listing>>

\* wb autostart <vmname> on
vm_autostart(vmname) ==
    /\ vmname \notin enabled
    /\ enabled' = enabled \cup {vmname}
    /\ result' = Outcome("autostart", Ok)
    /\ UNCHANGED <<dirs, mounts, devfs, root, trash, running, uuid_gen, snapshots, now, listing>>

\* the operator (or a reboot) unmounts a volume outside the tool
operator_umount(name) ==
    /\ IsMounted(FS, name)
    /\ SetFS(umount(FS, MountTarget(name), TRUE).F)
    /\ result' = Outcome("umount", Ok)
    /\ UNCHANGED <<running, enabled, uuid_gen, snapshots, now, listing>>

\* the operator (or the installer) makes a directory vm_root/@name, which may
\* carry a .subvolume marker of an earlier use
operator_mkdir(name, subvolume) ==
    /\ dirs[name].kind = "none"
    /\ subvolume => name # Default
    /\ dirs' = [dirs EXCEPT ![name] = [EmptyDir EXCEPT !.subvolume = subvolume]]
    /\ result' = Outcome("mkdir", Ok)
    /\ UNCHANGED <<mounts, devfs, root, trash, running, enabled, uuid_gen, snapshots, now, listing>>

\* a .uuid file copied or left by hand in an unmounted directory vm_root/@name
operator_marker(name, uuid) ==
    /\ dirs[name].kind = "dir"
    /\ dirs[name].uuid = NoFile
    /\ ~IsMounted(FS, name)
    /\ dirs' = [dirs EXCEPT ![name].uuid = uuid]
    /\ result' = Outcome("cp", Ok)
    /\ UNCHANGED <<mounts, devfs, root, trash, running, enabled, uuid_gen, snapshots, now, listing>>

\* a VM directory put by hand (copied back, restored from a backup) into the
\* directory vm_root/@name of the root filesystem while nothing is mounted on it
operator_restore(name, vmname) ==
    /\ dirs[name].kind = "dir"
    /\ ~IsMounted(FS, name)
    /\ dirs[name].vms[vmname].kind = "none"
    /\ dirs' = [dirs EXCEPT ![name].vms[vmname] = VmDirOf(CHOOSE o \in CreateOptions({}) : TRUE)]
    /\ result' = Outcome("cp", Ok)
    /\ UNCHANGED <<mounts, devfs, root, trash, running, enabled, uuid_gen, snapshots, now, listing>>

\* symlinks an operator may leave at vm_root/<vmname>
OperatorTargets ==
    { [rel |-> FALSE, path |-> << <<"mnt">>, <<"a">> >>],
      [rel |-> FALSE, path |-> << <<"mnt">>, <<"@", "v">>, <<"a">> >>] }

operator_symlink(vmname, target) ==
    /\ root[vmname].kind = "none"
    /\ root' = [root EXCEPT ![vmname] = [kind |-> "symlink", target |-> target]]
    /\ result' = Outcome("ln", Ok)
    /\ UNCHANGED <<dirs, mounts, devfs, trash, running, enabled, uuid_gen, snapshots, now, listing>>

\* The whole tool on one non-default volume and one formatted device: VM
\* placement together with the volume commands it depends on.
VmVolumes == {Default, <<"v">>}
VmDevices == {"sda1", "sdc1"}
VmWriteFailures == {"none", "open"}
\* the failures of vm create that throw
VmCreateFailures == CreateFailures \ {"ini"}

Next ==
    \/ \E name \in VmVolumes, device \in VmDevices, mok \in BOOLEAN, wfail \in VmWriteFailures :
          volume_add(name, device, mok, wfail)
    \/ \E name \in VmVolumes, uok \in BOOLEAN : volume_remove(name, uok)
    \/ \E vmname \in VmNameInputs, options \in CreateOptions(VmVolumes), fail \in VmCreateFailures :
          vm_create(vmname, options, fail)
    \/ \E vmname \in VmNames : vm_delete(vmname)
    \/ \E name \in VmVolumes : operator_umount(name)
    \/ \E name \in {Default} : operator_mkdir(name, FALSE)
    \/ \E vmname \in VmNames, target \in OperatorTargets : operator_symlink(vmname, target)
    \/ \E name \in VmVolumes \ {Default}, vmname \in VmNames : operator_restore(name, vmname)

Spec == Init /\ [][Next]_vars

\* The same with the service manager: VMs start, stop and are set to autostart.
NextService ==
    \/ Next
    \/ \E vmname \in VmNames : vm_start(vmname)
    \/ \E vmname \in VmNames : vm_stop(vmname)
    \/ \E vmname \in VmNames : vm_autostart(vmname)

SpecService == Init /\ [][NextService]_vars

\* VM creation and deletion with the service manager, on one volume that is
\* added and may be unmounted.
NextDelete ==
    \/ \E device \in {"sda1"}, mok \in {TRUE}, wfail \in {"none"} :
          volume_add(<<"v">>, device, mok, wfail)
    \/ \E vmname \in VmNames, options \in CreateOptions({<<"v">>}), fail \in {"none", "ini"} :
          vm_create(vmname, options, fail)
    \/ \E vmname \in VmNames : vm_delete(vmname)
    \/ \E vmname \in VmNames : vm_start(vmname)
    \/ \E vmname \in VmNames : vm_stop(vmname)
    \/ \E vmname \in VmNames : vm_autostart(vmname)
    \/ \E name \in {<<"v">>} : operator_umount(name)

SpecDelete == Init /\ [][NextDelete]_vars

\* Deleted VMs and the cleaning of the trash: two volumes, each on a device of
\* its own, and the directory @default; VMs created on them or right below
\* vm_root and deleted.
NextClean ==
    \/ \E mok \in {TRUE}, wfail \in {"none"} : volume_add(<<"v">>, "sda1", mok, wfail)
    \/ \E mok \in {TRUE}, wfail \in {"none"} : volume_add(<<"w">>, "sdb1", mok, wfail)
    \/ \E name \in {Default} : operator_mkdir(name, FALSE)
    \/ \E vmname \in VmNames, options \in CreateOptions(VolumeNames), fail \in {"none"} :
          vm_create(vmname, options, fail)
    \/ \E vmname \in VmNames : vm_delete(vmname)
    \/ \E name \in {<<"v">>} : operator_umount(name)
    \/ \E volume_name \in {nullopt} \cup {make_optional(n) : n \in VolumeNames},
           fails \in SUBSET {<<"w">>} :
          volume_clean(volume_name, fails)

SpecClean == Init /\ [][NextClean]_vars

\* Snapshots of one volume over the days, the volume in the end unmounted.
NextSnapshot ==
    \/ \E mok \in {TRUE}, wfail \in {"none"} : volume_add(<<"v">>, "sda1", mok, wfail)
    \/ \E name \in {<<"v">>} : operator_umount(name)
    \/ \E volume_name \in NamedVolumes, fail \in SnapshotFailures :
          volume_snapshot(volume_name, fail)
    \/ tick

SpecSnapshot == Init /\ [][NextSnapshot]_vars

\* what `vm show` may report: any of the VMs, each with or without a
\* guest-agent socket
ShowEntries == [ListNames -> {NoEntry, [present |-> TRUE, qga |-> FALSE], [present |-> TRUE, qga |-> TRUE]}]

\* vm list and its guest-agent queries, with a VM directory created or not
\* before the listing.
NextList ==
    \/ \E vmname \in VmNames, options \in CreateOptions({}), fail \in {"none"} :
          listing.pc = "idle" /\ vm_create(vmname, options, fail)
    \/ \E entries \in ShowEntries, show_ok \in BOOLEAN, deferred \in SUBSET {<<"b">>} :
          vm_list_begin(entries, show_ok, deferred)
    \/ \E n \in ListNames, outcome \in ConnectOutcomes : qga_connect(n, outcome)
    \/ \E n \in ListNames, outcome \in QueryOutcomes : qga_query(n, outcome)
    \/ vm_list_get
    \/ vm_list_unwind
    \/ vm_list_print
    \/ vm_list_end

SpecList == Init /\ [][NextList]_vars

\* The volume commands alone, on every volume name and device.
NextVolume ==
    \/ \E name \in VolumeNames, device \in Devices, mok \in BOOLEAN, wfail \in WriteFailures :
          volume_add(name, device, mok, wfail)
    \/ \E name \in VolumeNames, uok \in BOOLEAN : volume_remove(name, uok)
    \/ \E oks \in SUBSET NamedVolumes : volume_scan(oks)
    \/ \E options \in ListOptions, tb \in BOOLEAN : volume_list(options, tb)
    \/ \E name \in VolumeNames : operator_umount(name)
    \/ \E name \in VolumeNames, subvolume \in BOOLEAN : operator_mkdir(name, subvolume)
    \/ \E name \in {Default} : operator_marker(name, "u1")

SpecVolume == Init /\ [][NextVolume]_vars

\* ----------------------------------------------------------------- claims
VolumePath(n) == Slash(VmRoot, AtName(n))

\* vm_root/@n is a directory of the root filesystem with a .uuid marker and
\* nothing mounted on it
OfflineVolume(n) ==
    /\ ~IsMounted(FS, n)
    /\ dirs[n].kind = "dir"
    /\ dirs[n].uuid # NoFile

\* C1: a non-default volume directory that holds a .uuid marker and is not a
\* mount point is listed by the registry (get_volume, get_volume_list) as an
\* offline volume, and get_volume_dir returns no path for the same name.
C1_ResolverAsymmetry ==
    \A n \in NamedVolumes :
        OfflineVolume(n) =>
            /\ has_value(get_volume(FS, VolumePath(n)))
            /\ ~value(get_volume(FS, VolumePath(n))).online
            /\ n \in DOMAIN get_volume_list(FS, VmRoot)
            /\ get_volume_list(FS, VmRoot)[n].name = n
            /\ ~get_volume_list(FS, VmRoot)[n].online
            /\ get_volume_list(FS, VmRoot)[n].device_or_uuid = dirs[n].uuid
            /\ get_volume_dir(FS, VmRoot, n) = nullopt

\* a volume added by the tool and unmounted since: marker only
C1_Witness ==
    /\ result = Outcome("umount", Ok)
    /\ \E n \in NamedVolumes : OfflineVolume(n) /\ dirs[n].uuid = "u1"

C3_CreateNeverWritesUnmounted ==
    \A n \in NamedVolumes, vm \in VmNameInputs, fail \in CreateFailures :
        \A o \in CreateOptions({n}) :
            (has_value(o.volume) /\ ~IsMounted(FS, n)) =>
                LET r == create(FS, VmRoot, vm, o, fail) IN
                /\ r.err # Ok
                /\ r.F = FS

\* vm create was refused for the offline volume v (the default volume exists,
\* so the refusal is not about it)
C3_Witness ==
    /\ result = Outcome("create", "does not exist or offline")
    /\ dirs[Default].kind = "dir"
    /\ OfflineVolume(<<"v">>)

\* C4: when the mount fails during volume add, vm_root/@name does not exist
\* when the error is returned: no directory, no .uuid marker, no mount.
C4_AddRollback ==
    \A n \in NamedVolumes, d \in Devices :
        LET r == add(FS, VmRoot, n, d, FALSE, "none") IN
        r.err = "Failed to mount" =>
            /\ r.F.dirs[n] = NoDir
            /\ ~IsMounted(r.F, n)
            /\ ~exists(r.F, VolumePath(n))
            /\ ~exists(r.F, Slash(VolumePath(n), <<".uuid">>))

\* volume add has just failed to mount
C4_Witness ==
    /\ result = Outcome("volume add", "Failed to mount")
    /\ \E n \in NamedVolumes : dirs[n] = NoDir

\* C5: when vm_root/@name is mounted and the unmount fails, volume remove
\* raises an error and deletes nothing: directory, contents and mount are as
\* before the call.
C5_RemoveRefusesBusy ==
    \A n \in NamedVolumes :
        IsMounted(FS, n) =>
            LET r == remove(FS, VmRoot, n, FALSE) IN
            /\ r.err = "Unable to unmount"
            /\ r.F = FS

\* volume remove was refused on a mounted volume that holds a VM directory
C5_Witness ==
    /\ result = Outcome("volume remove", "Unable to unmount")
    /\ \E n \in NamedVolumes, vm \in VmNames :
          IsMounted(FS, n) /\ Visible(FS, n).vms[vm].kind = "dir"

\* C6: volume add with the name of an associated volume and a usable device
\* fails, with "has already been mounted" when vm_root/@name is mounted and
\* with "has already been associated to a partition" when it is not mounted
\* but holds a .uuid marker; the filesystem and the mounts are left as they
\* were.
C6_AddTwiceRejected ==
    \A n \in NamedVolumes, d \in Formatted, mok \in BOOLEAN, wfail \in WriteFailures :
        LET r == add(FS, VmRoot, n, d, mok, wfail) IN
        /\ IsMounted(FS, n) => (r.err = "has already been mounted" /\ r.F = FS)
        /\ OfflineVolume(n) =>
              (r.err = "has already been associated to a partition" /\ r.F = FS)

\* the second add of an offline volume was refused
C6_Witness ==
    /\ result = Outcome("volume add", "has already been associated to a partition")
    /\ \E n \in NamedVolumes : OfflineVolume(n) /\ dirs[n].uuid \in {"u1", "u2"}

\* vm_root/vm is the symlink vm create leaves for a VM placed on volume n
IndirectedInto(F, vm, n) ==
    F.root[vm] = [kind |-> "symlink", target |-> [rel |-> TRUE, path |-> <<AtName(n), vm>>]]

\* C7: a VM placed by vm create on an online non-default volume n resolves,
\* in get_volume_name_from_vm_name and in the validation of vm delete, as
\* indirected into n with real directory vm_root/@n/vm: right after the
\* create, and in every later state in which n is mounted and still holds
\* the VM directory.
C7_PlacementRoundTrip ==
    \A n \in NamedVolumes, vm \in VmNames :
        /\ \A o \in CreateOptions({n}) :
              LET r == create(FS, VmRoot, vm, o, "none") IN
              (has_value(o.volume) /\ r.err = Ok) =>
                  /\ IndirectedInto(r.F, vm, n)
                  /\ Visible(r.F, n).vms[vm] = VmDirOf(o)
                  /\ get_volume_name_from_vm_name(r.F, VmRoot, vm)
                        = [err |-> Ok, volume |-> make_optional(n)]
                  /\ delete_resolve(r.F, VmRoot, Slash(VmRoot, vm))
                        = [err |-> Ok, real_vm_dir |-> Slash(VolumePath(n), vm),
                           volume_dir |-> make_optional(VolumePath(n))]
        /\ (IndirectedInto(FS, vm, n) /\ IsMounted(FS, n) /\ Visible(FS, n).vms[vm].kind = "dir") =>
              /\ get_volume_name_from_vm_name(FS, VmRoot, vm)
                    = [err |-> Ok, volume |-> make_optional(n)]
              /\ delete_resolve(FS, VmRoot, Slash(VmRoot, vm))
                    = [err |-> Ok, real_vm_dir |-> Slash(VolumePath(n), vm),
                       volume_dir |-> make_optional(VolumePath(n))]

\* a VM has just been created on the mounted volume v
C7_Witness ==
    /\ result = Outcome("create", Ok)
    /\ IndirectedInto(FS, <<"a">>, <<"v">>)
    /\ IsMounted(FS, <<"v">>)
    /\ Visible(FS, <<"v">>).vms[<<"a">>].kind = "dir"

\* the errors of vm delete that report an inconsistent placement
InconsistentErrors ==
    {"is not a volume path", "Volume does not exist", "does not point VM dir right under volume"}

\* vm_root/vm is a symlink into volume n and vm_root/@n has been deleted
PlacedOnRemoved(vm, n) ==
    /\ IndirectedInto(FS, vm, n)
    /\ dirs[n].kind = "none"
    /\ ~IsMounted(FS, n)

\* C8 as stated: once the volume holding a VM has been removed, resolving the
\* VM fails with an inconsistent-state error.
C8_InconsistentStateError ==
    \A n \in NamedVolumes, vm \in VmNames :
        PlacedOnRemoved(vm, n) =>
            _delete(FS, VmRoot, vm, FALSE, uuid_unparse_lower(uuid_gen + 1)).err
                \in InconsistentErrors

\* What the code does in the case of C8: once the volume holding a VM has been
\* removed, resolving the VM fails with the error "<vmname> does not exist"
\* (the dangling symlink counts as an absent VM), in
\* get_volume_name_from_vm_name and in vm delete alike; no location, direct or
\* indirected, is returned and nothing is changed.
RemovedVolumeReportedMissing ==
    \A n \in NamedVolumes, vm \in VmNames :
        /\ PlacedOnRemoved(vm, n) =>
              /\ get_volume_name_from_vm_name(FS, VmRoot, vm)
                    = [err |-> "does not exist", volume |-> nullopt]
              /\ _delete(FS, VmRoot, vm, FALSE, uuid_unparse_lower(uuid_gen + 1))
                    = [F |-> FS, err |-> "does not exist", disabled |-> FALSE, drawn |-> FALSE]
        /\ (IndirectedInto(FS, vm, n) /\ IsMounted(FS, n)) =>
              LET r == remove(FS, VmRoot, n, TRUE) IN
              /\ r.err = Ok
              /\ r.F.dirs[n] = NoDir
              /\ get_volume_name_from_vm_name(r.F, VmRoot, vm).err = "does not exist"
              /\ _delete(r.F, VmRoot, vm, FALSE, uuid_unparse_lower(uuid_gen + 1)).err
                    = "does not exist"

\* volume v has just been removed while the VM a is a symlink into it
RemovedVolumeReached ==
    /\ result = Outcome("volume remove", Ok)
    /\ PlacedOnRemoved(<<"a">>, <<"v">>)

\* the entries of the .trash directory of vm_root (n = <<>>) or of volume n
DirTrash(d) == IF d.kind = "dir" THEN d.trash.entries ELSE {}
TrashEntries(F, n) == IF n = <<>> THEN F.trash.entries ELSE DirTrash(Visible(F, n))

\* C9: a successful vm delete erases nothing: the VM's real directory, as it
\* was, is the one new entry {parent}/.trash/{vmname}.{suffix}, parent being
\* vm_root/@n for a VM indirected into n and vm_root for a direct VM; the
\* other trash directories are as before and vm_root/vmname is gone.
C9_DeleteMovesToTrash ==
    \A vm \in VmNames :
        LET r == _delete(FS, VmRoot, vm, FALSE, uuid_unparse_lower(uuid_gen + 1))
            n == IF root[vm].kind = "symlink" THEN StripFirst(root[vm].target.path[1]) ELSE <<>>
            was == IF root[vm].kind = "symlink" THEN Visible(FS, n).vms[vm] ELSE root[vm]
            entry == [name |-> vm \o <<".">> \o uuid_unparse_lower(uuid_gen + 1), dir |-> was]
        IN  r.err = Ok =>
                /\ was.kind = "dir"
                /\ entry \notin TrashEntries(FS, n)
                /\ TrashEntries(r.F, n) = TrashEntries(FS, n) \cup {entry}
                /\ \A m \in VolumeNames \cup {<<>>} :
                      TrashEntries(FS, m) \subseteq TrashEntries(r.F, m)
                /\ n = <<>> => \A m \in VolumeNames : TrashEntries(r.F, m) = TrashEntries(FS, m)
                /\ n # <<>> => r.F.trash = trash
                /\ r.F.root[vm] = NoEnt
                /\ ~exists(r.F, Slash(VmRoot, vm))
                /\ n # <<>> => Visible(r.F, n).vms[vm] = NoEnt

\* a VM indirected into the mounted volume v has just been deleted
C9_Witness ==
    /\ result = Outcome("delete", Ok)
    /\ IsMounted(FS, <<"v">>)
    /\ \E e \in TrashEntries(FS, <<"v">>) : e.dir.kind = "dir"
    /\ root[<<"a">>] = NoEnt

\* every trash entry there is, with the directory holding it
AllTrash(F) ==
    {<<"root", e>> : e \in F.trash.entries}
    \cup UNION {{<<"dir", n, e>> : e \in DirTrash(F.dirs[n])} : n \in VolumeNames}
    \cup UNION {{<<"dev", d, e>> : e \in DirTrash(F.devfs[d])} : d \in Formatted}
TrashNames(F) ==
    {e.name : e \in F.trash.entries}
    \cup UNION {{e.name : e \in DirTrash(F.dirs[n])} : n \in VolumeNames}
    \cup UNION {{e.name : e \in DirTrash(F.devfs[d])} : d \in Formatted}

\* C10: over any sequence of creates and deletes, a vm delete that passes its
\* checks never fails on its rename, and the entry it adds has a name no trash
\* entry had before; every earlier entry is still there, unchanged, and no
\* trash directory holds two entries of one name.
C10_TrashNamesDistinct ==
    /\ \A vm \in VmNames :
          LET r == _delete(FS, VmRoot, vm, FALSE, uuid_unparse_lower(uuid_gen + 1)) IN
          /\ r.err # "rename failed"
          /\ r.err = Ok =>
                /\ AllTrash(FS) \subseteq AllTrash(r.F)
                /\ Cardinality(AllTrash(r.F)) = Cardinality(AllTrash(FS)) + 1
                /\ \A t \in AllTrash(r.F) \ AllTrash(FS) :
                      t[Len(t)].name \notin TrashNames(FS)
    /\ \A m \in VolumeNames \cup {<<>>} :
          \A e1, e2 \in TrashEntries(FS, m) : e1.name = e2.name => e1 = e2

\* the same VM name deleted twice into the same trash directory
C10_Witness ==
    /\ result = Outcome("delete", Ok)
    /\ \E m \in VolumeNames \cup {<<>>} :
          \E e1, e2 \in TrashEntries(FS, m) :
              /\ e1.name # e2.name
              /\ e1.name[1] = "a" /\ e2.name[1] = "a"

\* a device carries the UUID written in the marker of the offline volume n
MarkerHasDevice(n) == \E d \in Formatted : DeviceInfo[d].uuid = dirs[n].uuid

\* C11: scan attempts a mount by UUID for every non-default @-directory that
\* is not mounted and holds a .uuid marker; the volumes whose mount succeeds
\* come online, a volume whose mount fails stays offline as it was without
\* keeping the others from being mounted, nothing else changes, and scan
\* returns 0 whatever the mix of successes and failures.
C11_ScanIndependent ==
    \A oks \in SUBSET NamedVolumes :
        LET r == scan(FS, VmRoot, oks) IN
        /\ r.rc = 0
        /\ r.F.dirs = dirs /\ r.F.devfs = devfs /\ r.F.root = root /\ r.F.trash = trash
        /\ r.F.mounts[Default] = mounts[Default]
        /\ \A n \in NamedVolumes :
              /\ OfflineVolume(n) <=> n \in r.mounted \cup r.failed
              /\ n \in r.mounted <=> (OfflineVolume(n) /\ n \in oks /\ MarkerHasDevice(n))
              /\ n \in r.mounted =>
                    /\ Len(r.F.mounts[n]) = 1
                    /\ DeviceInfo[TopDevice(r.F, n)].uuid = dirs[n].uuid
              /\ n \notin r.mounted => r.F.mounts[n] = mounts[n]

\* a scan has just mounted one offline volume and failed to mount another,
\* which is still offline
C11_Witness ==
    /\ result.op = "volume scan"
    /\ \E n \in result.mounted : IsMounted(FS, n)
    /\ \E n \in result.failed : OfflineVolume(n)

\* the errors volume add raises for a violated precondition
AddPreconditionErrors ==
    {"Default volume cannot be modified", "does not exist(or is not a block device)",
     "has no UUID(not formatted?)", "has already been mounted",
     "has already been associated to a partition"}

\* vm_root/@name holds a .uuid marker (on the filesystem visible there)
MarkerPresent(name) == Visible(FS, name).kind = "dir" /\ Visible(FS, name).uuid # NoFile

\* a precondition of volume add does not hold for name and device
AddPreconditionViolated(name, device) ==
    \/ name = Default
    \/ ~DeviceInfo[device].exists
    \/ ~DeviceInfo[device].block
    \/ DeviceInfo[device].uuid = ""
    \/ IsMounted(FS, name)
    \/ MarkerPresent(name)

\* C12: volume add raises every precondition violation (reserved name, device
\* missing or no block device, device without UUID, name already mounted,
\* marker already present) before any mutation: it ends with the error of
\* that precondition and the directories, markers and mount table are as
\* they were.
C12_AddPreconditionsFirst ==
    \A name \in VolumeNames, device \in Devices, mok \in BOOLEAN, wfail \in WriteFailures :
        LET r == add(FS, VmRoot, name, device, mok, wfail) IN
        /\ AddPreconditionViolated(name, device) <=> r.err \in AddPreconditionErrors
        /\ AddPreconditionViolated(name, device) => r.F = FS
        /\ name = Default => r.err = "Default volume cannot be modified"
        /\ (name # Default /\ ~(DeviceInfo[device].exists /\ DeviceInfo[device].block))
              => r.err = "does not exist(or is not a block device)"

\* volume add has just refused a device without UUID while an orphaned
\* directory and a mounted volume exist, all left as they were
C12_Witness ==
    /\ result = Outcome("volume add", "has no UUID(not formatted?)")
    /\ \E n \in NamedVolumes : IsMounted(FS, n)
    /\ \E n \in NamedVolumes : dirs[n].kind = "dir" /\ dirs[n].uuid = NoFile /\ ~IsMounted(FS, n)

\* C13: after a successful volume add the volume is online: vm_root/@name is
\* a mount point backed by a device carrying the UUID probed on <device>, the
\* marker below the mount point holds that UUID, get_volume_dir returns
\* vm_root/@name and the registry lists the name as online.
C13_AddBringsOnline ==
    \A name \in VolumeNames, device \in Devices, mok \in BOOLEAN, wfail \in WriteFailures :
        LET r == add(FS, VmRoot, name, device, mok, wfail) IN
        r.err = Ok =>
            /\ r.F.mounts[name] # <<>>
            /\ DeviceInfo[TopDevice(r.F, name)].uuid = value(get_partition_uuid(device))
            /\ r.F.dirs[name].kind = "dir"
            /\ r.F.dirs[name].uuid = value(get_partition_uuid(device))
            /\ get_source_device_from_mountpoint(r.F, VolumePath(name))
                  = make_optional(<<TopDevice(r.F, name), Fstype(TopDevice(r.F, name))>>)
            /\ get_volume_dir(r.F, VmRoot, name) = make_optional(VolumePath(name))
            /\ name \in DOMAIN get_volume_list(r.F, VmRoot)
            /\ get_volume_list(r.F, VmRoot)[name].online
            /\ get_volume_list(r.F, VmRoot)[name].path = VolumePath(name)

\* volume add has just succeeded and the volume it names is mounted
C13_Witness ==
    /\ result = Outcome("volume add", Ok)
    /\ \E n \in NamedVolumes : IsMounted(FS, n) /\ dirs[n].uuid \in {"u1", "u2"}

\* C14: the reserved name is protected: volume add and volume remove of
\* "default" fail and change nothing, and no volume command (add, remove,
\* scan, whatever its arguments) writes or removes a .uuid marker in
\* vm_root/@default or changes what is mounted on it; the tool never has it
\* mounted.
C14_ReservedNameProtected ==
    /\ mounts[Default] = <<>>
    /\ \A device \in Devices, mok \in BOOLEAN, wfail \in WriteFailures :
          add(FS, VmRoot, Default, device, mok, wfail)
              = [F |-> FS, err |-> "Default volume cannot be modified"]
    /\ \A uok \in BOOLEAN :
          remove(FS, VmRoot, Default, uok) = [F |-> FS, err |-> "Default volume cannot be modified"]
    /\ \A name \in NamedVolumes, device \in Devices, mok \in BOOLEAN, wfail \in WriteFailures :
          LET r == add(FS, VmRoot, name, device, mok, wfail) IN
          r.F.dirs[Default] = dirs[Default] /\ r.F.mounts[Default] = mounts[Default]
    /\ \A name \in NamedVolumes, uok \in BOOLEAN :
          LET r == remove(FS, VmRoot, name, uok) IN
          r.F.dirs[Default] = dirs[Default] /\ r.F.mounts[Default] = mounts[Default]
    /\ \A oks \in SUBSET VolumeNames :
          LET r == scan(FS, VmRoot, oks) IN
          /\ r.F.dirs[Default] = dirs[Default] /\ r.F.mounts[Default] = mounts[Default]
          /\ Default \notin r.mounted \cup r.failed

\* a scan has just run over a directory vm_root/@default that holds a marker
\* naming an existing device, and has left it unmounted
C14_Witness ==
    /\ result.op = "volume scan"
    /\ dirs[Default].kind = "dir"
    /\ dirs[Default].uuid = "u1"
    /\ ~IsMounted(FS, Default)

\* C15: volume remove fails, changing nothing, when vm_root/@name does not
\* exist; when it succeeds nothing is mounted on vm_root/@name any more and
\* the directory with everything below it is gone, so that the registry does
\* not list the name and get_volume_dir does not resolve it.
C15_RemoveDeletesVolume ==
    \A name \in NamedVolumes, uok \in BOOLEAN :
        LET r == remove(FS, VmRoot, name, uok) IN
        /\ ~exists(FS, VolumePath(name)) => r = [F |-> FS, err |-> "does not exist"]
        /\ r.err = Ok =>
              /\ exists(FS, VolumePath(name))
              /\ r.F.mounts[name] = <<>>
              /\ r.F.dirs[name] = NoDir
              /\ ~exists(r.F, VolumePath(name))
              /\ name \notin DOMAIN get_volume_list(r.F, VmRoot)
              /\ get_volume(r.F, VolumePath(name)) = nullopt
              /\ get_volume_dir(r.F, VmRoot, name) = nullopt
              /\ \A n \in VolumeNames \ {name} :
                    r.F.dirs[n] = dirs[n] /\ r.F.mounts[n] = mounts[n]

\* volume remove has just succeeded: a volume is gone while another is
\* still mounted
C15_Witness ==
    /\ result = Outcome("volume remove", Ok)
    /\ \E n \in NamedVolumes : dirs[n] = NoDir /\ ~IsMounted(FS, n)
    /\ \E n \in NamedVolumes : IsMounted(FS, n)

\* C16: the registry holds an entry for name n exactly when vm_root/@n is a
\* directory right below vm_root that is mounted or holds a .uuid file; an
\* @-directory with neither, and every entry of vm_root without the @ prefix
\* (VM directories, symlinks, .trash), never appears; an entry is online
\* exactly when the directory is mounted.
C16_RegistryMembership ==
    LET volumes == get_volume_list(FS, VmRoot) IN
    /\ DOMAIN volumes \subseteq VolumeNames
    /\ \A n \in VolumeNames :
          /\ n \in DOMAIN volumes <=>
                /\ dirs[n].kind = "dir"
                /\ IsMounted(FS, n) \/ dirs[n].uuid # NoFile
          /\ n \in DOMAIN volumes =>
                /\ volumes[n].name = n
                /\ volumes[n].online <=> IsMounted(FS, n)
    /\ \A p \in directory_iterator(FS, VmRoot) :
          filename(p)[1] # "@" => get_volume(FS, p) = nullopt

\* vm_root holds an offline volume, an @-directory that is no volume, a VM
\* directory and a .trash, and the registry lists the offline volume only
C16_Witness ==
    /\ OfflineVolume(<<"v">>)
    /\ dirs[Default].kind = "dir" /\ dirs[Default].uuid = NoFile /\ ~IsMounted(FS, Default)
    /\ root[<<"a">>].kind = "dir"
    /\ trash.present
    /\ DOMAIN get_volume_list(FS, VmRoot) = {<<"v">>}

\* the state of volume n: online (mounted), offline (marker, not mounted) or
\* unassociated (neither; the directory may exist)
VolumeState(n) ==
    IF mounts[n] # <<>> THEN "online"
    ELSE IF dirs[n].kind = "dir" /\ dirs[n].uuid # NoFile THEN "offline"
    ELSE "unassociated"

\* the transitions the volume commands are stated to make
StatedTransition(op, s, t) ==
    \/ s = t
    \/ op = "volume add" /\ s = "unassociated" /\ t = "online"
    \/ op = "volume scan" /\ s = "offline" /\ t = "online"
    \/ op = "volume remove" /\ s \in {"online", "offline"} /\ t = "unassociated"

\* C17 as stated: a step of volume add, scan or remove changes the state of a
\* volume only along the stated transitions (add: unassociated to online;
\* scan: offline to online; remove: online or offline to unassociated), and
\* add and remove change the state of one volume at most.
C17_StatedTransitionsOnly ==
    [][ result'.op \in {"volume add", "volume scan", "volume remove"} =>
          /\ \A n \in NamedVolumes :
                StatedTransition(result'.op, VolumeState(n), VolumeState(n)')
          /\ result'.op # "volume scan" =>
                Cardinality({n \in NamedVolumes : VolumeState(n) # VolumeState(n)'}) <= 1
      ]_vars

\* the errors of volume add thrown after vm_root/@name has been created
AddLateErrors == {"Failed to open", "Failed writing to", "Failed to close", "Failed to mount"}

\* C18 as stated: when volume add fails after it has created vm_root/@name
\* (opening, writing or closing the marker, or mounting), vm_root/@name
\* holds no .uuid marker and is not mounted.
C18_FailedAddLeavesNoMarker ==
    \A name \in NamedVolumes, device \in Devices, mok \in BOOLEAN, wfail \in WriteFailures :
        LET r == add(FS, VmRoot, name, device, mok, wfail) IN
        r.err \in AddLateErrors =>
            /\ r.F.mounts[name] = <<>>
            /\ ~exists(r.F, Slash(VolumePath(name), <<".uuid">>))

\* C19 as stated: when the mount of volume add fails, the filesystem below
\* vm_root is as it was before the call, also when vm_root/@name existed
\* before as a directory without marker.
C19_RollbackRestores ==
    \A name \in NamedVolumes, device \in Devices, wfail \in WriteFailures :
        LET r == add(FS, VmRoot, name, device, FALSE, wfail) IN
        r.err = "Failed to mount" => r.F = FS

\* vm_root/vm is a symlink to the directory vm_root/@n/vm, which exists in
\* the root filesystem, while nothing is mounted on vm_root/@n
StaleSymlink(vm, n) ==
    /\ IndirectedInto(FS, vm, n)
    /\ ~IsMounted(FS, n)
    /\ is_directory(FS, Slash(VolumePath(n), vm))

\* C20 as stated: when vm_root/vm is a symlink to a directory inside
\* vm_root/@n and volume n is not mounted, every resolution of the VM's
\* backing location (get_volume_name_from_vm_name, the validation of vm
\* delete) fails with an inconsistent-state error.
C20_StaleSymlinkRejected ==
    \A n \in NamedVolumes, vm \in VmNames :
        StaleSymlink(vm, n) =>
            /\ get_volume_name_from_vm_name(FS, VmRoot, vm).err \in InconsistentErrors
            /\ _delete(FS, VmRoot, vm, FALSE, uuid_unparse_lower(uuid_gen + 1)).err
                  \in InconsistentErrors

\* What the code does in the case of C20: vm delete refuses the VM with
\* "Volume <n> does not exist" and changes nothing, while
\* get_volume_name_from_vm_name throws nothing and reports the VM as having
\* no volume.
StaleSymlinkReportedDirect ==
    \A n \in NamedVolumes, vm \in VmNames :
        StaleSymlink(vm, n) =>
            /\ get_volume_name_from_vm_name(FS, VmRoot, vm) = [err |-> Ok, volume |-> nullopt]
            /\ _delete(FS, VmRoot, vm, FALSE, uuid_unparse_lower(uuid_gen + 1))
                  = [F |-> FS, err |-> "Volume does not exist", disabled |-> FALSE, drawn |-> FALSE]

\* vm_root/vm is a symlink to an existing directory whose parent directory
\* has a name not starting with "@"
OutsideVolume(vm) ==
    /\ root[vm].kind = "symlink"
    /\ is_directory(FS, Slash(VmRoot, vm))
    /\ filename(parent_path(SymlinkDest(FS, Slash(VmRoot, vm))))[1] # "@"

\* C21 as stated: when vm_root/vm is a symlink to a directory whose parent's
\* name does not start with "@", every resolution of the VM's backing
\* location (get_volume_name_from_vm_name, the validation of vm delete) fails
\* with a not-a-volume-path error.
C21_NotAVolumePathRejected ==
    \A vm \in VmNames :
        OutsideVolume(vm) =>
            /\ get_volume_name_from_vm_name(FS, VmRoot, vm).err = "is not a volume path"
            /\ _delete(FS, VmRoot, vm, FALSE, uuid_unparse_lower(uuid_gen + 1)).err
                  = "is not a volume path"

\* What the code does in the case of C21: vm delete refuses the VM with
\* "... is not a volume path" and changes nothing, while
\* get_volume_name_from_vm_name throws nothing and reports no volume.
OutsideVolumeReportedDirect ==
    \A vm \in VmNames :
        OutsideVolume(vm) =>
            /\ get_volume_name_from_vm_name(FS, VmRoot, vm) = [err |-> Ok, volume |-> nullopt]
            /\ _delete(FS, VmRoot, vm, FALSE, uuid_unparse_lower(uuid_gen + 1))
                  = [F |-> FS, err |-> "is not a volume path", disabled |-> FALSE, drawn |-> FALSE]

\* vm_root/vm is a symlink to an existing directory that vm delete does not
\* accept as the VM's place: outside every volume directory, or below an
\* @-directory that get_volume_dir does not resolve to the symlink's parent
InconsistentPlacement(vm) ==
    /\ root[vm].kind = "symlink"
    /\ is_directory(FS, Slash(VmRoot, vm))
    /\ LET volume_dir == parent_path(SymlinkDest(FS, Slash(VmRoot, vm)))
           volume_name == filename(volume_dir)
       IN  \/ volume_name[1] # "@"
           \/ get_volume_dir(FS, VmRoot, StripFirst(volume_name)) # make_optional(volume_dir)

\* C22: vm delete never repairs or follows an inconsistent VM: it fails with
\* one of the placement errors, whether or not the VM is running, and leaves
\* the symlink, the target directory, every .trash and the rest of the
\* filesystem as they were, does not disable autostart and draws no
\* identifier.
C22_DeleteNeverRepairs ==
    \A vm \in VmNames, active \in BOOLEAN :
        InconsistentPlacement(vm) =>
            LET r == _delete(FS, VmRoot, vm, active, uuid_unparse_lower(uuid_gen + 1)) IN
            /\ r.err \in InconsistentErrors
            /\ r.F = FS
            /\ ~r.disabled
            /\ ~r.drawn

\* vm delete has just refused a VM whose symlink leads into a directory of an
\* unmounted volume; symlink and directory are still there
C22_Witness ==
    /\ result = Outcome("delete", "Volume does not exist")
    /\ StaleSymlink(<<"a">>, <<"v">>)
    /\ InconsistentPlacement(<<"a">>)

\* vm delete accepts the placement of vm_root/vm: the entry is a directory,
\* or a symlink that resolves to a VM directory right under a volume
PlacementValid(vm) ==
    /\ ~vm_missing(FS, Slash(VmRoot, vm))
    /\ delete_resolve(FS, VmRoot, Slash(VmRoot, vm)).err = Ok

\* C25: vm delete refuses a running VM with "is running" and leaves the
\* symlink, the real directory, the trash and the autostart setting as they
\* were; autostart is disabled and the symlink removed only when the
\* placement has been validated and the VM is not running, and then the real
\* directory ends in the trash; no delete succeeds on a VM that is running.
C25_DeleteRefusesRunning ==
    /\ result = Outcome("delete", Ok) => running = {}
    /\ result = Outcome("delete", "is running") => running # {}
    /\ \A vm \in VmNames, active \in BOOLEAN :
          LET r == _delete(FS, VmRoot, vm, active, uuid_unparse_lower(uuid_gen + 1)) IN
          /\ (PlacementValid(vm) /\ active) =>
                r = [F |-> FS, err |-> "is running", disabled |-> FALSE, drawn |-> FALSE]
          /\ r.disabled => (PlacementValid(vm) /\ ~active)
          /\ r.F # FS => (PlacementValid(vm) /\ ~active /\ r.disabled)
          /\ (PlacementValid(vm) /\ ~active) =>
                /\ r.err = Ok
                /\ r.disabled
                /\ r.F.root[vm] = NoEnt

\* vm delete has just refused a running VM placed on a volume; the VM is
\* still running, set to autostart, and its symlink and directory are there
C25_Witness ==
    /\ result = Outcome("delete", "is running")
    /\ <<"a">> \in running
    /\ <<"a">> \in enabled
    /\ IndirectedInto(FS, <<"a">>, <<"v">>)
    /\ is_directory(FS, Slash(VmRoot, <<"a">>))

\* the errors vm create raises when the name or the place is taken
AlreadyExistsErrors == {"already exists", "real_vm_dir already exists"}

ReachableVmNotOverwritten ==
    \A vm \in VmNames, o \in CreateOptions(VmVolumes), fail \in CreateFailures :
        LET r == create(FS, VmRoot, vm, o, fail)
            taken == \/ exists(FS, Slash(VmRoot, vm))
                     \/ /\ has_value(o.volume)
                        /\ has_value(get_volume_dir(FS, VmRoot, value(o.volume)))
                        /\ exists(FS, Slash(VolumePath(value(o.volume)), vm))
        IN  taken => (r.err \in AlreadyExistsErrors /\ r.F = FS)

\* the step of vm create named by `fail` is one the call with these options
\* performs
StepPerformed(o, fail) ==
    \/ fail \in {"mkdir", "ini"}
    \/ fail = "copy" /\ has_value(o.system_file)
    \/ fail = "data" /\ has_value(o.data_partition)
    \/ fail = "symlink" /\ has_value(o.volume)

\* C27 as stated: when a step of vm create fails after it has started
\* writing (creating the directory, copying the system file, writing vm.ini,
\* allocating the data file, creating the symlink), create fails, the real VM
\* directory is removed and no symlink vm_root/vmname is left; a symlink
\* vm_root/vmname exists after create only with the complete real directory
\* inside the volume.
C27_CreateCleansUp ==
    \A vm \in VmNames, o \in CreateOptions(VmVolumes), fail \in CreateFailures :
        LET r == create(FS, VmRoot, vm, o, fail)
            vm_dir == Slash(VmRoot, vm)
            started == r.err \notin AlreadyExistsErrors \cup {"does not exist or offline"}
            real_vm_dir == IF has_value(o.volume) THEN Slash(VolumePath(value(o.volume)), vm)
                           ELSE vm_dir
        IN  started =>
              /\ StepPerformed(o, fail) =>
                    /\ r.err # Ok
                    /\ Lstat(r.F, real_vm_dir) = "none"
                    /\ Lstat(r.F, vm_dir) = "none"
              /\ Lstat(r.F, vm_dir) = "symlink" =>
                    /\ has_value(o.volume)
                    /\ r.F.root[vm].target = symlink_target(value(o.volume), vm)
                    /\ DirAt(r.F, real_vm_dir) = VmDirOf(o)

\* What the code does in the case of C27 for the steps that throw, on a name
\* that is free: the real VM directory is removed, no symlink is left and
\* nothing else is changed.
ThrownCreateFailureCleansUp ==
    \A vm \in VmNames, o \in CreateOptions(VmVolumes), fail \in VmCreateFailures :
        LET r == create(FS, VmRoot, vm, o, fail) IN
        (r.err = "create failed" /\ Lstat(FS, Slash(VmRoot, vm)) = "none") => r.F = FS

\* C28: no sequence of volume add, scan and remove stacks mounts: every
\* directory vm_root/@name has one mount at most, add and scan mount only on
\* a directory that is no mount point, and the one unmount of a successful
\* remove leaves the directory unmounted before it is deleted.
C28_NoStackedMounts ==
    /\ \A n \in VolumeNames : Len(mounts[n]) <= 1
    /\ \A n \in NamedVolumes, device \in Devices, wfail \in WriteFailures :
          IsMounted(FS, n) => add(FS, VmRoot, n, device, TRUE, wfail).F.mounts = mounts
    /\ \A oks \in SUBSET NamedVolumes :
          \A n \in NamedVolumes :
              IsMounted(FS, n) => scan(FS, VmRoot, oks).F.mounts[n] = mounts[n]
    /\ \A n \in NamedVolumes :
          LET r == remove(FS, VmRoot, n, TRUE) IN
          r.err = Ok => (r.F.mounts[n] = <<>> /\ r.F.dirs[n] = NoDir)

\* a scan has just mounted an offline volume while another volume was
\* mounted already, and each has one mount
C28_Witness ==
    /\ result.op = "volume scan"
    /\ result.mounted = {<<"w">>}
    /\ Len(mounts[<<"w">>]) = 1
    /\ Len(mounts[<<"v">>]) = 1

\* C24 as stated: when the mount table cannot be read, the volume listing
\* does not abort: it ends without error and counts no directory as online.
C24_ListingDegrades ==
    \A options \in ListOptions :
        LET r == list(FS, VmRoot, options, FALSE) IN
        /\ r.err = Ok
        /\ r.rc = 0
        /\ \A row \in r.rows : ~row.online

\* What the code does in the case of C24: with the mount table unreadable the
\* listing ends without error exactly when vm_root holds no @-directory at
\* all, and otherwise is aborted by "Cannot open /proc/self/mountinfo" with
\* nothing printed.
ListingAbortsOnMountTable ==
    \A options \in ListOptions :
        LET r == list(FS, VmRoot, options, FALSE) IN
        IF \A n \in VolumeNames : dirs[n].kind = "none"
        THEN r = [err |-> Ok, rc |-> 0, rows |-> {}]
        ELSE r = [err |-> "Cannot open /proc/self/mountinfo", rc |-> 1, rows |-> {}]

\* filesystem G is filesystem F but for the .trash of the volumes in `names`,
\* which are gone in G
OnlyTrashGone(F, G, names) ==
    /\ G.root = F.root
    /\ G.trash = F.trash
    /\ G.mounts = F.mounts
    /\ \A n \in VolumeNames :
          IF n \in names
          THEN /\ Visible(G, n) = [Visible(F, n) EXCEPT !.trash = NoTrash]
               /\ IsMounted(F, n) => G.dirs[n] = F.dirs[n]
          ELSE Visible(G, n) = Visible(F, n) /\ G.dirs[n] = F.dirs[n]

\* C29: volume clean deletes nothing but trash.  With a name it fails and
\* deletes nothing when get_volume_dir does not resolve the volume, and
\* otherwise removes the .trash subtree of that volume directory only; with
\* no name it does so for every online volume, goes on past a volume whose
\* cleaning fails and returns 1 if one failed, 0 otherwise.  VM directories,
\* markers, symlinks, mounts and the .trash right below vm_root stay as they
\* were.
C29_CleanOnlyTrash ==
    \A fails \in SUBSET VolumeNames :
        /\ \A name \in VolumeNames :
              LET r == clean(FS, VmRoot, make_optional(name), fails) IN
              IF ~has_value(get_volume_dir(FS, VmRoot, name))
              THEN r.err = "No such volume" /\ r.F = FS
              ELSE IF name \in fails THEN r.err # Ok /\ r.F = FS
              ELSE r.err = Ok /\ r.rc = 0 /\ OnlyTrashGone(FS, r.F, {name})
        /\ LET r == clean(FS, VmRoot, nullopt, fails)
               online == {n \in VolumeNames : IsMounted(FS, n)}
           IN  /\ r.err = Ok
               /\ r.rc = (IF online \cap fails = {} THEN 0 ELSE 1)
               /\ OnlyTrashGone(FS, r.F, online \ fails)

\* a clean of all volumes has just returned 1: the trash of volume v is gone,
\* that of volume w, whose cleaning failed, and that of vm_root are still
\* there, and so is a VM directory on v
C29_Witness ==
    /\ result = Outcome("volume clean", "returned 1")
    /\ IsMounted(FS, <<"v">>) /\ Visible(FS, <<"v">>).trash = NoTrash
    /\ IsMounted(FS, <<"w">>) /\ Visible(FS, <<"w">>).trash.entries # {}
    /\ uuid_gen = MaxUuid

\* the weekday slots of a .snapshots directory
Weekdays == {DOWSTR[i] : i \in DOMAIN DOWSTR}

\* C30: snapshot rotation keeps a bounded set.  .snapshots holds at most a
\* head and one snapshot per weekday name, at most 8 in all; a weekday slot
\* holds a read-only snapshot created on that weekday and no newer than head.
\* A call that succeeds has moved the head it found into the slot of the
\* weekday that head was created on, in place of what the slot held, has left
\* the other slots alone and has made a new read-only head created now; a
\* call that fails makes no head and no snapshot that was not there.
C30_SnapshotRotation ==
    /\ \A d \in Formatted :
          LET E == snapshots[d].entries IN
          /\ Cardinality({n \in SnapshotNames : E[n].present}) <= 8
          /\ E["head"].present => E["head"].read_only /\ E["head"].otime <= now
          /\ \A i \in DOMAIN DOWSTR :
                E[DOWSTR[i]].present =>
                    /\ tm_wday(E[DOWSTR[i]].otime) = i - 1
                    /\ E[DOWSTR[i]].read_only
                    /\ E["head"].present => E[DOWSTR[i]].otime <= E["head"].otime
    /\ \A volume_name \in NamedVolumes, fail \in SnapshotFailures :
          LET r == snapshot(FS, snapshots, VmRoot, volume_name, now, fail) IN
          IF ~IsMounted(FS, volume_name) THEN r.err # Ok /\ r.S = snapshots
          ELSE
              LET d == TopDevice(FS, volume_name)
                  old == snapshots[d].entries
                  new == r.S[d].entries
                  slot == DOWSTR[tm_wday(old["head"].otime) + 1]
              IN  /\ \A e \in Formatted \ {d} : r.S[e] = snapshots[e]
                  /\ r.err = Ok =>
                        /\ new["head"] = [present |-> TRUE, otime |-> now, read_only |-> TRUE]
                        /\ old["head"].present => new[slot] = old["head"]
                        /\ \A n \in Weekdays :
                              (~old["head"].present \/ n # slot) => new[n] = old[n]
                  /\ r.err # Ok =>
                        /\ new["head"] \in {old["head"], NoSubvol}
                        /\ \A n \in Weekdays : new[n] \in {old[n], old["head"], NoSubvol}

\* a snapshot has just been taken on day 8: the head of day 7, a Thursday as
\* day 0 was, sits in the slot Thu, the snapshots of days 1 and 6 in Fri and
\* Wed, and head is the one of day 8
C30_Witness ==
    /\ result = Outcome("volume snapshot", Ok)
    /\ IsMounted(FS, <<"v">>)
    /\ LET E == snapshots["sda1"].entries IN
          /\ E["head"].present /\ E["head"].otime = 8
          /\ E["Thu"].present /\ E["Thu"].otime = 7
          /\ E["Fri"].present /\ E["Fri"].otime = 1
          /\ E["Wed"].present /\ E["Wed"].otime = 6

\* C23: vm list joins every guest-agent query before it prints.  Nothing is
\* printed before the end; when the table is printed every query launched has
\* returned and been waited for, the listing has no error, there is a row for
\* every VM directory and every VM reported running, and a row's address is
\* the one its own query found: a query that timed out leaves that row
\* without address and no other.  The listing fails only on the subprocess
\* or on a query that threw, never on a timeout.
C23_ListJoinsBeforeOutput ==
    /\ listing.out.printed => listing.pc = "done"
    /\ listing.pc = "done" =>
          /\ listing.out.printed
          /\ listing.err = Ok
          /\ \A n \in ListNames :
                /\ listing.threads[n].state \in {"none", "returned"}
                /\ listing.threads[n].state = "returned" => n \in listing.joined
                /\ listing.json[n].present =>
                      listing.out.rows[n].present /\ listing.out.rows[n].running
                /\ (n \in VmNames /\ is_directory(FS, Slash(VmRoot, n))) =>
                      listing.out.rows[n].present
                /\ listing.out.rows[n].ip_address =
                      (IF listing.threads[n].state = "returned" /\ listing.threads[n].via = "ipv4"
                       THEN make_optional(Address(n)) ELSE nullopt)
    /\ listing.pc \in {"unwind", "failed"} =>
          /\ listing.err # Ok
          /\ \/ listing.err = "subprocess exited with error"
             \/ \E n \in ListNames : listing.threads[n].state = "threw"

\* the table has been printed after the query of VM a timed out and that of
\* VM b found an address: a, which has a directory, has a row without
\* address, b has its own
C23_Witness ==
    /\ listing.pc = "done"
    /\ listing.threads[<<"a">>].via = "timeout"
    /\ listing.threads[<<"b">>].via = "ipv4"
    /\ root[<<"a">>].kind = "dir"
    /\ listing.out.rows[<<"a">>].present /\ listing.out.rows[<<"a">>].ip_address = nullopt
    /\ listing.out.rows[<<"b">>].ip_address = make_optional(Address(<<"b">>))


====
